---- MODULE Spec2Model ----
(***************************************************************************)
(* Cross-process window/webview control protocol of webview-1.             *)
(*                                                                         *)
(*   worker  : src/src/bin/eventloop.rs  (registry, dispatch, event loop)  *)
(*   client  : src/src/ipc.rs            (IpcClient, request ids, codec)   *)
(*                                                                         *)
(* A TCP stream is a sequence of wire items.  An item is an encoded        *)
(* envelope (part = "whole") or a piece of one left behind by a read that  *)
(* cut it (part = "head" / "tail").  One read returns a non-empty prefix   *)
(* of what is buffered, possibly cutting its last envelope.                *)
(***************************************************************************)
EXTENDS Integers, Sequences, FiniteSets, TLC

(***************************************************************************)
(* Bounds of the model.                                                    *)
(***************************************************************************)
MaxHandle == 2
MaxTao == 2
MaxConns == 2
MaxInFlight == 2
MaxEvents == 1
MaxRequestId == 2
\* Seconds by which the clock of the model advances.
TimeStep == 5

\* ipc.rs: the socket read timeout and the request-completion timeout.
ReadTimeoutSecs == 5
RequestTimeoutSecs == 10

Handles == 1..MaxHandle
TaoIds == 1..MaxTao
Conns == 1..MaxConns
Titles == {"T"}

Min(S) == CHOOSE x \in S : \A y \in S : x <= y

(***************************************************************************)
(* Wire vocabulary: IpcRequest, IpcResponse, IpcMessage.                   *)
(***************************************************************************)
HandleKinds ==
  {"CloseWindow", "CreateWebview", "EvaluateScript", "LoadUrl", "LoadHtml",
   "SetWindowVisible", "SetWindowTitle"}

\* Requests a host may put on the wire.  arg carries the scalar parameter
\* of SetWindowVisible (a boolean) and SetWindowTitle (a title); options,
\* scripts, urls and html are opaque to the registry and left out.
IpcRequest ==
  [kind : {"CreateBrowserWindow", "CloseWindow", "CreateWebview",
           "EvaluateScript", "LoadUrl", "LoadHtml"},
   window_id : Handles, arg : {"none"}]
  \cup [kind : {"SetWindowVisible"}, window_id : Handles, arg : BOOLEAN]
  \cup [kind : {"SetWindowTitle"}, window_id : Handles, arg : Titles]
  \cup [kind : {"Exit", "Ping"}, window_id : {0}, arg : {"none"}]

Success(data) == [kind |-> "Success", request_id |-> 0, body |-> data]
Error(id, message) == [kind |-> "Error", request_id |-> id, body |-> message]
Pong == [kind |-> "Pong", request_id |-> 0, body |-> [pong |-> TRUE]]
ApplicationEvent(event_type, window_id) ==
  [kind |-> "ApplicationEvent", request_id |-> 0,
   body |-> [event_type |-> event_type, window_id |-> window_id]]

\* An error text together with the handle numbers that appear in it.
Msg(text, names) == [text |-> text, names |-> names]

IpcMessage(request_id, payload) ==
  [part |-> "whole", request_id |-> request_id, payload |-> payload]

(***************************************************************************)
(* WindowManager of the worker: windows, tao_to_window_id, webviews.       *)
(***************************************************************************)
WindowManager_new ==
  [windows |-> <<>>, tao_to_window_id |-> <<>>, webviews |-> <<>>]

\* f with key k bound to v (HashMap::insert), and f without key k
\* (HashMap::remove).
Insert(f, k, v) == [x \in DOMAIN f \cup {k} |-> IF x = k THEN v ELSE f[x]]
Remove(f, k) == [x \in DOMAIN f \ {k} |-> f[x]]

\* A faulty variant of add_window: the tao id is mapped, the window is not
\* stored (line 99 without line 100).
add_window_NoInsert(wm, window_id, window) ==
  [wm EXCEPT !.tao_to_window_id = Insert(wm.tao_to_window_id, window.tao, window_id)]

add_window(wm, window_id, window) ==
  [wm EXCEPT !.windows = Insert(wm.windows, window_id, window),
             !.tao_to_window_id = Insert(wm.tao_to_window_id, window.tao, window_id)]

get_window(wm, window_id) ==
  IF window_id \in DOMAIN wm.windows THEN {wm.windows[window_id]} ELSE {}

get_webview(wm, window_id) ==
  IF window_id \in DOMAIN wm.webviews THEN {wm.webviews[window_id]} ELSE {}

get_window_id(wm, tao_id) ==
  IF tao_id \in DOMAIN wm.tao_to_window_id
  THEN {wm.tao_to_window_id[tao_id]} ELSE {}

\* A faulty variant of remove_window: the whole native-id map is cleared
\* with the window (clear in place of the removal of lines 240-249).
remove_window_ClearTao(wm, window_id) ==
  IF window_id \in DOMAIN wm.windows
  THEN [wm EXCEPT !.windows = Remove(wm.windows, window_id),
                  !.tao_to_window_id = <<>>]
  ELSE wm

remove_window(wm, window_id) ==
  IF window_id \in DOMAIN wm.windows
  THEN [wm EXCEPT
          !.windows = Remove(wm.windows, window_id),
          !.tao_to_window_id =
            [t \in {u \in DOMAIN wm.tao_to_window_id :
                      wm.tao_to_window_id[u] # window_id}
               |-> wm.tao_to_window_id[t]]]
  ELSE wm

\* create_window_options never fails; without options the builder carries
\* the defaults.  Of a window's attributes the model keeps its visibility;
\* its title lives in the toolkit alone.
create_window_options(window_id) ==
  [builder |-> [visible |-> TRUE], wid |-> window_id]

\* A faulty variant of create_webview: the entry is inserted before the
\* toolkit call and stays when the call fails.
create_webview_InsertFirst(wm, window_id, tk) ==
  IF get_window(wm, window_id) = {}
  THEN [ok |-> FALSE, e |-> Msg("Window not found", {window_id}), wm |-> wm]
  ELSE [ok |-> tk,
        e |-> IF tk THEN Msg("", {}) ELSE Msg("Failed to create webview", {}),
        wm |-> [wm EXCEPT !.webviews =
                  Insert(wm.webviews, window_id, [built |-> tk])]]

\* tk is the outcome of the toolkit call made (WebViewBuilder::build).
create_webview(wm, window_id, tk) ==
  IF get_window(wm, window_id) = {}
  THEN [ok |-> FALSE, e |-> Msg("Window not found", {window_id}), wm |-> wm]
  ELSE IF ~tk
  THEN [ok |-> FALSE, e |-> Msg("Failed to create webview", {}), wm |-> wm]
  ELSE [ok |-> TRUE, e |-> Msg("", {}),
        wm |-> [wm EXCEPT !.webviews =
                  Insert(wm.webviews, window_id, [built |-> TRUE])]]

(***************************************************************************)
(* process_ipc_request of the worker binary.  The result is the            *)
(* IpcRequestResult together with the registry as the call leaves it.      *)
(* tk is the outcome of the toolkit call the request leads to.             *)
(***************************************************************************)
ResSuccess(resp, wm) == [tag |-> "Success", resp |-> resp, wm |-> wm]
ResError(e, wm) == [tag |-> "Error", e |-> e, wm |-> wm]
ResCreateWindow(b, wm) ==
  [tag |-> "CreateWindow", builder |-> b.builder, window_id |-> b.wid, wm |-> wm]

WebviewCall(request, wm, tk, data, failText) ==
  IF get_webview(wm, request.window_id) # {}
  THEN IF tk THEN ResSuccess(Success(data), wm)
             ELSE ResError(Msg(failText, {}), wm)
  ELSE ResError(Msg("Webview not found", {request.window_id}), wm)

\* The CreateWebview arm, given what create_webview returned.
WebviewCreated(h, r) ==
  IF r.ok
  THEN ResSuccess(Success([window_id |-> h, webview_created |-> TRUE]), r.wm)
  ELSE ResError(r.e, r.wm)

process_ipc_request(request, wm, tk) ==
  LET h == request.window_id IN
  CASE request.kind = "CreateBrowserWindow" ->
         ResCreateWindow(create_window_options(h), wm)
    [] request.kind = "CloseWindow" ->
         ResSuccess(Success([closed |-> TRUE]), remove_window(wm, h))
    [] request.kind = "CreateWebview" ->
         WebviewCreated(h, create_webview(wm, h, tk))
    [] request.kind = "EvaluateScript" ->
         WebviewCall(request, wm, tk, [evaluated |-> TRUE], "Failed to evaluate script")
    [] request.kind = "LoadUrl" ->
         WebviewCall(request, wm, tk, [loaded |-> TRUE], "Failed to load URL")
    [] request.kind = "LoadHtml" ->
         WebviewCall(request, wm, tk, [loaded |-> TRUE], "Failed to load HTML")
    [] request.kind = "SetWindowVisible" ->
         IF get_window(wm, h) # {}
         THEN ResSuccess(Success([visible |-> request.arg]),
                         [wm EXCEPT !.windows[h].visible = request.arg])
         ELSE ResError(Msg("Window not found", {h}), wm)
    [] request.kind = "SetWindowTitle" ->
         IF get_window(wm, h) # {}
         THEN ResSuccess(Success([title |-> request.arg]), wm)
         ELSE ResError(Msg("Window not found", {h}), wm)
    [] request.kind = "Exit" ->
         ResSuccess(Success([exiting |-> TRUE]), wm)
    [] request.kind = "Ping" ->
         ResSuccess(Pong, wm)

(***************************************************************************)
(* State.                                                                  *)
(*   window_manager, streams, should_exit : locals of the worker's main    *)
(*   worker      : "running" | "exited" (ControlFlow::Exit) | "killed"     *)
(*   eventQueue  : native events the toolkit has queued (tao window ids    *)
(*                 of CloseRequested events)                               *)
(*   backlog     : connections made but not yet accepted, oldest first     *)
(*   hostEnd[c]  : "free" | "open" | "closed" | "reset", the host's end    *)
(*   c2w[c], w2c[c] : bytes in flight, host to worker and worker to host   *)
(*                                                                         *)
(*   REQUEST_ID_COUNTER : the process-wide counter of the host             *)
(*   allocated   : the ids generate_request_id has returned, in order      *)
(*   request_channel, response_channel : the two mpsc channels of the      *)
(*                 IpcClient, which owns connection ClientConn             *)
(*   reader      : "none" | "reading" | "done", the client's reader thread *)
(*   call        : the send_request call in progress or last returned      *)
(*   elapsed     : seconds since that call took its start Instant          *)
(*   readTimer   : seconds the reader's current read has been blocked      *)
(*   returned    : the results send_request has returned, oldest first     *)
(*   manager     : EventloopProcess::spawn in progress or done, with the    *)
(*                 child process it started                                *)
(*   client      : "none" | "live" | "dropped", the IpcClient object       *)
(*   writer      : "none" | "running" | "done", the client's writer thread *)
(*   host        : the window-id counter, the Application and the proxy    *)
(*                 operation in progress in the host process               *)
(*   codec       : a value on its way through the wire encoding            *)
(***************************************************************************)
VARIABLES window_manager, streams, should_exit, worker, eventQueue,
          backlog, hostEnd, c2w, w2c,
          REQUEST_ID_COUNTER, allocated, request_channel, response_channel,
          reader, call, elapsed, readTimer, returned,
          manager, client, writer, host, codec

workerVars == <<window_manager, streams, should_exit, worker, eventQueue>>
socketVars == <<backlog, hostEnd, c2w, w2c>>
clientVars == <<REQUEST_ID_COUNTER, allocated, request_channel,
                response_channel, reader, call, elapsed, readTimer, returned>>
\* The state of the client object and its writer thread, of the proxies
\* of the host and of the codec under test.
restVars == <<client, writer, host, codec>>
vars == <<workerVars, socketVars, clientVars, manager, restVars>>

Range(s) == {s[i] : i \in DOMAIN s}

RECURSIVE SumLen(_, _)
SumLen(f, S) ==
  IF S = {} THEN 0
  ELSE LET c == Min(S) IN Len(f[c]) + SumLen(f, S \ {c})

\* Items buffered in either direction, over all connections.
Load == SumLen(c2w, Conns) + SumLen(w2c, Conns)

(***************************************************************************)
(* One read of a stream.  ch.n items are taken (as many as are buffered,   *)
(* at most); with ch.cut the last one, if a whole envelope, is cut and     *)
(* its tail stays buffered.                                                *)
(***************************************************************************)
ReadChoices == [n : 1..(MaxInFlight + 1), cut : BOOLEAN, tk : BOOLEAN]
NoChoice == [n |-> 1, cut |-> FALSE, tk |-> TRUE]
\* Reads under which every write arrives alone and whole.
WholeReads == {ch \in ReadChoices : ch.n = 1 /\ ~ch.cut}

\* The choices that differ in effect on buffer buf.
ChoicesFor(buf) ==
  IF buf = <<>> THEN {NoChoice}
  ELSE {ch \in ReadChoices :
          /\ ch.n <= Len(buf)
          /\ ch.cut => buf[ch.n].part = "whole"
          /\ ~ch.tk => ch.n = 1 /\ ~ch.cut /\ buf[1].part = "whole"}

Taken(buf, ch) == Min({ch.n, Len(buf)})
Cuts(buf, ch) == ch.cut /\ buf[Taken(buf, ch)].part = "whole"

Chunk(buf, ch) ==
  LET n == Taken(buf, ch) IN
  IF Cuts(buf, ch)
  THEN Append(SubSeq(buf, 1, n - 1), [buf[n] EXCEPT !.part = "head"])
  ELSE SubSeq(buf, 1, n)

Rest(buf, ch) ==
  LET n == Taken(buf, ch) IN
  IF Cuts(buf, ch)
  THEN <<[buf[n] EXCEPT !.part = "tail"]>> \o SubSeq(buf, n + 1, Len(buf))
  ELSE SubSeq(buf, n + 1, Len(buf))

\* serde_json::from_slice: the bytes must be exactly one encoded envelope.
Decodes(data) == Len(data) = 1 /\ data[1].part = "whole"

\* A faulty variant of StreamRead: a read returns the newest envelope
\* buffered and leaves the older ones.
StreamRead_Newest(buf, end, ch) ==
  IF end = "reset" THEN [tag |-> "Err"]
  ELSE IF buf = <<>>
  THEN IF end = "closed" THEN [tag |-> "Eof"] ELSE [tag |-> "WouldBlock"]
  ELSE [tag |-> "Ok", data |-> <<buf[Len(buf)]>>,
        rest |-> SubSeq(buf, 1, Len(buf) - 1)]

\* stream.read on a non-blocking stream of the worker.
StreamRead(buf, end, ch) ==
  IF end = "reset" THEN [tag |-> "Err"]
  ELSE IF buf = <<>>
  THEN IF end = "closed" THEN [tag |-> "Eof"] ELSE [tag |-> "WouldBlock"]
  ELSE [tag |-> "Ok", data |-> Chunk(buf, ch), rest |-> Rest(buf, ch)]

(***************************************************************************)
(* The toolkit: a window it builds gets a native id no live window, no     *)
(* registry entry and no queued event carries.                             *)
(***************************************************************************)
UsedTao(wm, evq) ==
  {wm.windows[h].tao : h \in DOMAIN wm.windows}
    \cup DOMAIN wm.tao_to_window_id \cup Range(evq)

CanBuild(wm, evq) == TaoIds \ UsedTao(wm, evq) # {}

BuildWindow(builder, wm, evq) ==
  [tao |-> Min(TaoIds \ UsedTao(wm, evq)), visible |-> builder.visible]

(***************************************************************************)
(* main, lines 446-503: what the worker does with the bytes of one read.   *)
(* st carries the locals of the closure: wm (window_manager), exit         *)
(* (should_exit), out[c] (what was written to connection c), rest[c]       *)
(* (what stays buffered on c) and rm (streams_to_remove).                  *)
(***************************************************************************)
ResponseOf(request_id, result, evq, tk) ==
  CASE result.tag = "Success" ->
         [response |-> result.resp, flag |-> FALSE, wm |-> result.wm]
    [] result.tag = "Error" ->
         [response |-> Error(request_id, result.e), flag |-> FALSE,
          wm |-> result.wm]
    [] result.tag = "CreateWindow" ->
         IF tk /\ CanBuild(result.wm, evq)
         THEN [response |-> Success([window_id |-> result.window_id,
                                     success |-> TRUE]),
               flag |-> FALSE,
               wm |-> add_window(result.wm, result.window_id,
                                 BuildWindow(result.builder, result.wm, evq))]
         ELSE [response |-> Error(request_id, Msg("Failed to create window", {})),
               flag |-> FALSE, wm |-> result.wm]

Respond(request_id, request, wm, evq, tk) ==
  ResponseOf(request_id, process_ipc_request(request, wm, tk), evq, tk)

\* A faulty variant of WriteBack: the envelope carries id 0, as the
\* responses built inside process_ipc_request do, not the request's id.
WriteBack_IdZero(st, c, request_id, r) ==
  [st EXCEPT !.wm = r.wm,
             !.exit = st.exit \/ r.flag,
             !.out[c] = Append(st.out[c], IpcMessage(0, r.response))]

\* A faulty variant of WriteBack: the response is written to every
\* connection, as IpcServer::send_response does.
WriteBack_ToAll(st, c, request_id, r) ==
  [st EXCEPT !.wm = r.wm,
             !.exit = st.exit \/ r.flag,
             !.out = [d \in Conns |->
                        Append(st.out[d], IpcMessage(request_id, r.response))]]

\* Lines 491-502: the exit flag is stored and the response written to the
\* stream the request was read from, in an envelope with the request's id.
WriteBack(st, c, request_id, r) ==
  [st EXCEPT !.wm = r.wm,
             !.exit = st.exit \/ r.flag,
             !.out[c] = Append(st.out[c], IpcMessage(request_id, r.response))]

\* A faulty variant of Dispatch: bytes that do not decode are answered
\* with an Error response.
Dispatch_ErrorOnGarbage(st, c, data, evq, tk) ==
  IF Decodes(data)
  THEN WriteBack(st, c, data[1].request_id,
                 Respond(data[1].request_id, data[1].payload, st.wm, evq, tk))
  ELSE [st EXCEPT !.out[c] =
          Append(st.out[c], IpcMessage(0, Error(0, Msg("Invalid request", {}))))]

Dispatch(st, c, data, evq, tk) ==
  IF Decodes(data)
  THEN WriteBack(st, c, data[1].request_id,
                 Respond(data[1].request_id, data[1].payload, st.wm, evq, tk))
  ELSE st

\* main, lines 438-510: the read loop over streams, from index i on.
\* The match on stream.read of lines 441-509, for stream i = connection c.
ReadOne(st, i, c, r, evq, tk) ==
  CASE r.tag = "Eof" -> [st EXCEPT !.rm = st.rm \cup {i}]
    [] r.tag = "Err" -> [st EXCEPT !.rm = st.rm \cup {i}]
    [] r.tag = "WouldBlock" -> st
    [] r.tag = "Ok" ->
         Dispatch([st EXCEPT !.rest[c] = r.rest], c, r.data, evq, tk)

RECURSIVE ReadStreams(_, _, _, _, _)
ReadStreams(i, st, strs, evq, choice) ==
  IF i > Len(strs) THEN st
  ELSE ReadStreams(i + 1,
                   ReadOne(st, i, strs[i],
                           StreamRead(c2w[strs[i]], hostEnd[strs[i]], choice[i]),
                           evq, choice[i].tk),
                   strs, evq, choice)

Max(S) == CHOOSE x \in S : \A y \in S : x >= y

\* Vec::remove(idx): the elements after idx shift down by one.
RemoveAt(s, idx) == SubSeq(s, 1, idx - 1) \o SubSeq(s, idx + 1, Len(s))

\* A faulty variant of RemoveStreams: the indices are removed in the order
\* in which they were pushed, lowest first, so each removal shifts the
\* streams the later indices meant.
RECURSIVE RemoveStreams_Forward(_, _)
RemoveStreams_Forward(strs, rm) ==
  IF rm = {} THEN strs
  ELSE RemoveStreams_Forward(RemoveAt(strs, Min(rm)), rm \ {Min(rm)})

\* main, lines 512-515: the indices pushed on streams_to_remove (rm) are
\* removed from streams one by one, highest first.
RECURSIVE RemoveStreams(_, _)
RemoveStreams(strs, rm) ==
  IF rm = {} THEN strs
  ELSE RemoveStreams(RemoveAt(strs, Max(rm)), rm \ {Max(rm)})

\* A faulty variant of Broadcast: the event is written to the first open
\* connection only.
Broadcast_FirstOnly(st, strs, window_id_num, resp_data) ==
  [st EXCEPT
     !.wm = remove_window(st.wm, window_id_num),
     !.out = [c \in Conns |->
                IF strs # <<>> /\ c = strs[1] THEN Append(st.out[c], resp_data)
                ELSE st.out[c]]]

\* main, lines 517-542: a CloseRequested event of native window tao_id.
Broadcast(st, strs, window_id_num, resp_data) ==
  [st EXCEPT
     !.wm = remove_window(st.wm, window_id_num),
     !.out = [c \in Conns |->
                IF c \in Range(strs) THEN Append(st.out[c], resp_data)
                ELSE st.out[c]]]

CloseEventOf(st, strs, window_id_num) ==
  Broadcast(st, strs, window_id_num,
            IpcMessage(0, ApplicationEvent("WindowCloseRequested", window_id_num)))

CloseRequested(st, strs, tao_id) ==
  IF get_window_id(st.wm, tao_id) = {} THEN st
  ELSE CloseEventOf(st, strs, CHOOSE h \in get_window_id(st.wm, tao_id) : TRUE)

NoEvent == 0

\* main, lines 427-436: streams after listener.accept.
Accepted == IF backlog # <<>> THEN Append(streams, Head(backlog)) ELSE streams

\* One call of the closure given to event_loop.run, for event ev
\* (NoEvent: any event but CloseRequested).
AfterEvent(st, kept, ev) ==
  [streams |-> kept,
   st |-> IF ev = NoEvent THEN st ELSE CloseRequested(st, kept, ev),
   backlog |-> IF backlog # <<>> THEN Tail(backlog) ELSE backlog]

AfterReads(st, strs, ev) == AfterEvent(st, RemoveStreams(strs, st.rm), ev)

Iteration(ev, choice) ==
  AfterReads(ReadStreams(1,
                         [wm |-> window_manager, exit |-> should_exit,
                          out |-> [c \in Conns |-> <<>>], rest |-> c2w,
                          rm |-> {}],
                         Accepted, eventQueue, choice),
             Accepted, ev)

(***************************************************************************)
(* The worker's event loop, one closure call per step.                     *)
(***************************************************************************)
\* The state a closure call leaves, given what Iteration computed.
Becomes(it) ==
  /\ window_manager' = it.st.wm
  /\ should_exit' = it.st.exit
  /\ streams' = it.streams
  /\ backlog' = it.backlog
  /\ c2w' = it.st.rest
  /\ w2c' = [c \in Conns |-> w2c[c] \o it.st.out[c]]

event_loop_run(reads) ==
  /\ worker = "running"
  /\ IF should_exit
     THEN /\ worker' = "exited"
          /\ UNCHANGED <<manager, restVars, window_manager, streams, should_exit,
                         eventQueue, socketVars, clientVars>>
     ELSE \E popEvent \in BOOLEAN, choice \in [1..MaxConns -> reads] :
            /\ popEvent => eventQueue # <<>>
            /\ \A i \in 1..MaxConns :
                 choice[i] \in ChoicesFor(IF i <= Len(Accepted) THEN c2w[Accepted[i]]
                                          ELSE <<>>)
            /\ Becomes(Iteration(IF popEvent THEN Head(eventQueue) ELSE NoEvent,
                                 choice))
            /\ eventQueue' = IF popEvent THEN Tail(eventQueue) ELSE eventQueue
            /\ UNCHANGED <<manager, restVars, worker, hostEnd, clientVars>>

(***************************************************************************)
(* Request ids of the host process (src/src/ipc.rs, lines 73-79).          *)
(***************************************************************************)
\* A faulty variant of generate_request_id: the counter is read, not
\* advanced (load in place of fetch_add).
generate_request_id_Load(counter) == [id |-> counter, counter |-> counter]

\* AtomicU64::fetch_add(1): the value before, and the counter after.
generate_request_id(counter) == [id |-> counter, counter |-> counter + 1]

\* The id g.id has been handed out.
Took(g) ==
  /\ REQUEST_ID_COUNTER' = g.counter
  /\ allocated' = Append(allocated, g.id)

(***************************************************************************)
(* The environment of the worker: hosts that connect, write requests,      *)
(* read what the worker wrote, close or reset their connection, and the    *)
(* user who clicks the close button of a live window.                      *)
(***************************************************************************)
HostConnect(c) ==
  /\ worker = "running"
  /\ hostEnd[c] = "free"
  /\ \A d \in Conns : d < c => hostEnd[d] # "free"
  /\ hostEnd' = [hostEnd EXCEPT ![c] = "open"]
  /\ backlog' = Append(backlog, c)
  /\ UNCHANGED <<manager, restVars, workerVars, clientVars, c2w, w2c>>

HostWrite(c, id, request) ==
  /\ hostEnd[c] = "open"
  /\ Load < MaxInFlight
  /\ c2w' = [c2w EXCEPT ![c] = Append(@, IpcMessage(id, request))]
  /\ UNCHANGED <<manager, restVars, workerVars, clientVars, backlog, hostEnd, w2c>>

\* A blocking caller: it writes a request only when nothing of its own is
\* in flight in either direction.
HostCall(c, id, request) ==
  /\ hostEnd[c] = "open"
  /\ Load = 0
  /\ c2w' = [c2w EXCEPT ![c] = Append(@, IpcMessage(id, request))]
  /\ UNCHANGED <<manager, restVars, workerVars, clientVars, backlog, hostEnd, w2c>>

\* A host submits a request on connection c without waiting for the
\* replies to its earlier ones: the id comes from the process-wide counter
\* and the envelope reaches the socket whole (send_request_async and the
\* writer thread, taken together).
HostSend(c, request) ==
  /\ hostEnd[c] = "open"
  /\ Load < MaxInFlight
  /\ REQUEST_ID_COUNTER <= MaxRequestId
  /\ Took(generate_request_id(REQUEST_ID_COUNTER))
  /\ c2w' = [c2w EXCEPT ![c] = Append(@, IpcMessage(REQUEST_ID_COUNTER, request))]
  /\ UNCHANGED <<manager, restVars, workerVars, backlog, hostEnd, w2c, request_channel,
                 response_channel, reader, call, elapsed, readTimer, returned>>

HostRead(c) ==
  /\ hostEnd[c] = "open"
  /\ w2c[c] # <<>>
  /\ w2c' = [w2c EXCEPT ![c] = Tail(@)]
  /\ UNCHANGED <<manager, restVars, workerVars, clientVars, backlog, hostEnd, c2w>>

HostClose(c) ==
  /\ hostEnd[c] = "open"
  /\ hostEnd' = [hostEnd EXCEPT ![c] = "closed"]
  /\ w2c' = [w2c EXCEPT ![c] = <<>>]
  /\ UNCHANGED <<manager, restVars, workerVars, clientVars, backlog, c2w>>

HostReset(c) ==
  /\ hostEnd[c] = "open"
  /\ hostEnd' = [hostEnd EXCEPT ![c] = "reset"]
  /\ c2w' = [c2w EXCEPT ![c] = <<>>]
  /\ w2c' = [w2c EXCEPT ![c] = <<>>]
  /\ UNCHANGED <<manager, restVars, workerVars, clientVars, backlog>>

UserClose(tao_id) ==
  /\ worker = "running"
  /\ \E h \in DOMAIN window_manager.windows :
       window_manager.windows[h].tao = tao_id
  /\ Len(eventQueue) < MaxEvents
  /\ eventQueue' = Append(eventQueue, tao_id)
  /\ UNCHANGED <<manager, restVars, window_manager, streams, should_exit, worker,
                 socketVars, clientVars>>

\* The worker process is killed (EventloopProcess::stop, or from outside):
\* its sockets close; what it had written can still be read.
WorkerKilled ==
  /\ worker = "running"
  /\ worker' = "killed"
  /\ UNCHANGED <<manager, restVars, window_manager, streams, should_exit, eventQueue,
                 socketVars, clientVars>>

(***************************************************************************)
(* IpcClient (src/src/ipc.rs) on connection ClientConn.                    *)
(***************************************************************************)
ClientConn == Min(Conns)

serialize_request(message) == IpcMessage(message.request_id, message.request)

\* serialize_response wraps every response in an envelope.
serialize_response(request_id, response) == IpcMessage(request_id, response)

\* deserialize_response: the bytes are tried as a bare IpcResponse first
\* (an encoded enum: its variant at the top), then as an envelope.
deserialize_response(data) ==
  IF ~(Len(data) = 1 /\ data[1].part = "whole") THEN <<>>
  ELSE IF "kind" \in DOMAIN data[1]
  THEN <<[request_id |-> 0, payload |-> [x \in DOMAIN data[1] \ {"part"} |-> data[1][x]]]>>
  ELSE IF {"request_id", "payload"} \subseteq DOMAIN data[1]
  THEN <<[request_id |-> data[1].request_id, payload |-> data[1].payload]>>
  ELSE <<>>

\* The call of send_request in progress: live says whether the reader
\* thread was running when the call began, heard whether the reader has
\* read anything from the socket since, skipped which ids the call polled
\* and did not return.
Idle ==
  [pc |-> "idle", request_id |-> 0, result |-> "none", resp |-> <<>>,
   skipped |-> {}, heard |-> FALSE, live |-> FALSE]

Turn(tag, result, resp, chan, dropped) ==
  [tag |-> tag, result |-> result, resp |-> resp, chan |-> chan,
   dropped |-> dropped]

\* Faulty variants of send_request_loop.  AnyResponse returns whatever
\* response it polls (no comparison at line 153); DisconnectedAsEmpty keeps
\* waiting for the timeout when the channel is disconnected (lines 166-171
\* folded into 157-165); EmptyAsDisconnected reports a disconnection as
\* soon as the queue is empty (lines 157-165 folded into 166-171).
send_request_loop_AnyResponse(request_id, chan, senderAlive, waited) ==
  IF chan # <<>>
  THEN Turn("Return", "Ok", <<Head(chan)>>, Tail(chan), {})
  ELSE IF senderAlive
  THEN IF waited > RequestTimeoutSecs
       THEN Turn("Return", "TimedOut", <<>>, chan, {})
       ELSE Turn("Loop", "none", <<>>, chan, {})
  ELSE Turn("Return", "ConnectionReset", <<>>, chan, {})

send_request_loop_DisconnectedAsEmpty(request_id, chan, senderAlive, waited) ==
  IF chan # <<>>
  THEN IF Head(chan).request_id = request_id
       THEN Turn("Return", "Ok", <<Head(chan)>>, Tail(chan), {})
       ELSE Turn("Loop", "none", <<>>, Tail(chan), {Head(chan).request_id})
  ELSE IF waited > RequestTimeoutSecs
  THEN Turn("Return", "TimedOut", <<>>, chan, {})
  ELSE Turn("Loop", "none", <<>>, chan, {})

send_request_loop_EmptyAsDisconnected(request_id, chan, senderAlive, waited) ==
  IF chan # <<>>
  THEN IF Head(chan).request_id = request_id
       THEN Turn("Return", "Ok", <<Head(chan)>>, Tail(chan), {})
       ELSE Turn("Loop", "none", <<>>, Tail(chan), {Head(chan).request_id})
  ELSE Turn("Return", "ConnectionReset", <<>>, chan, {})

\* A faulty variant of send_request_loop: the time-out is not looked at
\* (lines 158-163 left out).
send_request_loop_NoTimeout(request_id, chan, senderAlive, waited) ==
  IF chan # <<>>
  THEN IF Head(chan).request_id = request_id
       THEN Turn("Return", "Ok", <<Head(chan)>>, Tail(chan), {})
       ELSE Turn("Loop", "none", <<>>, Tail(chan), {Head(chan).request_id})
  ELSE IF senderAlive
  THEN Turn("Loop", "none", <<>>, chan, {})
  ELSE Turn("Return", "ConnectionReset", <<>>, chan, {})

\* One turn of the loop of send_request (lines 150-173) for the call
\* waiting on request_id: chan is response_receiver, senderAlive says
\* whether the reader thread still holds response_sender, waited is
\* start.elapsed().
send_request_loop(request_id, chan, senderAlive, waited) ==
  IF chan # <<>>
  THEN IF Head(chan).request_id = request_id
       THEN Turn("Return", "Ok", <<Head(chan)>>, Tail(chan), {})
       ELSE Turn("Loop", "none", <<>>, Tail(chan), {Head(chan).request_id})
  ELSE IF senderAlive
  THEN IF waited > RequestTimeoutSecs
       THEN Turn("Return", "TimedOut", <<>>, chan, {})
       ELSE Turn("Loop", "none", <<>>, chan, {})
  ELSE Turn("Return", "ConnectionReset", <<>>, chan, {})

Last(s) == s[Len(s)]

\* The id g.id has been handed out and sent to the writer with request
\* (request_sender.send).
Submit(g, request) ==
  /\ Took(g)
  /\ request_channel' =
       Append(request_channel, [request_id |-> g.id, request |-> request])

\* send_request, lines 139-148: the id is allocated, the request handed to
\* the writer, the clock started.
send_request(request) ==
  /\ client = "live"
  /\ call.pc # "waiting"
  /\ Submit(generate_request_id(REQUEST_ID_COUNTER), request)
  /\ call' = [Idle EXCEPT !.pc = "waiting", !.request_id = Last(allocated'),
                          !.live = (reader = "reading")]
  /\ elapsed' = 0
  /\ UNCHANGED <<manager, client, writer, codec, workerVars, socketVars,
                 response_channel, reader, readTimer, returned>>

\* A call of send_request made on the client directly.
SendRequest(request) ==
  /\ REQUEST_ID_COUNTER <= MaxRequestId
  /\ send_request(request)
  /\ UNCHANGED host

\* The state one turn t of the loop leaves.
Turned(t) ==
  /\ response_channel' = t.chan
  /\ call' = [call EXCEPT
                !.pc = IF t.tag = "Return" THEN "returned" ELSE "waiting",
                !.result = t.result,
                !.resp = t.resp,
                !.skipped = call.skipped \cup t.dropped]
  /\ returned' = IF t.tag = "Return"
                 THEN Append(returned, [request_id |-> call.request_id,
                                        result |-> t.result, resp |-> t.resp])
                 ELSE returned

\* send_request, lines 150-173: one turn of the polling loop.
SendRequestLoop ==
  /\ call.pc = "waiting"
  /\ Turned(send_request_loop(call.request_id, response_channel,
                              reader = "reading", elapsed))
  /\ UNCHANGED <<manager, restVars, workerVars, socketVars, REQUEST_ID_COUNTER, allocated,
                 request_channel, reader, elapsed, readTimer>>

\* send_request_async, lines 177-184.
send_request_async(request) ==
  /\ client = "live"
  /\ call.pc # "waiting"
  /\ Submit(generate_request_id(REQUEST_ID_COUNTER), request)
  /\ UNCHANGED <<manager, client, writer, codec, workerVars, socketVars,
                 response_channel, reader, call, elapsed, readTimer, returned>>

\* A call of send_request_async made on the client directly.
SendRequestAsync(request) ==
  /\ REQUEST_ID_COUNTER <= MaxRequestId
  /\ send_request_async(request)
  /\ UNCHANGED host

\* try_recv_event, lines 187-193, when it returns Some.
TryRecvEvent ==
  /\ client = "live"
  /\ call.pc # "waiting"
  /\ response_channel # <<>>
  /\ response_channel' = Tail(response_channel)
  /\ UNCHANGED <<manager, restVars, workerVars, socketVars, REQUEST_ID_COUNTER, allocated,
                 request_channel, reader, call, elapsed, readTimer, returned>>

\* Another thread of the host process takes an id (generate_request_id is
\* public and the counter is shared by every client of the process).
OtherCaller ==
  /\ REQUEST_ID_COUNTER <= MaxRequestId
  /\ Took(generate_request_id(REQUEST_ID_COUNTER))
  /\ UNCHANGED <<manager, restVars, workerVars, socketVars, request_channel,
                 response_channel, reader, call, elapsed, readTimer,
                 returned>>

\* A faulty variant of WriterThread: it takes the newest request waiting
\* in the channel, not the oldest.
WriterThread_Newest ==
  /\ writer = "running"
  /\ request_channel # <<>>
  /\ request_channel' = SubSeq(request_channel, 1, Len(request_channel) - 1)
  /\ c2w' = IF worker = "running"
            THEN [c2w EXCEPT ![ClientConn] =
                    Append(@, serialize_request(Last(request_channel)))]
            ELSE c2w
  /\ UNCHANGED <<manager, restVars, workerVars, backlog, hostEnd, w2c, REQUEST_ID_COUNTER,
                 allocated, response_channel, reader, call, elapsed, readTimer,
                 returned>>

\* The socket is closed when the client and the clones of the stream
\* its two threads hold have all been dropped.
SocketAfter(c, r, w) ==
  IF c = "dropped" /\ r = "done" /\ w = "done"
  THEN [hostEnd EXCEPT ![ClientConn] = "closed"] ELSE hostEnd

\* request_receiver.recv(), line 120: the oldest request waiting, or Err
\* when none is and request_sender has been dropped; else recv blocks.
recv(chan, senderAlive) ==
  IF chan # <<>> THEN "Ok" ELSE IF senderAlive THEN "Blocks" ELSE "Err"

\* The writer thread, lines 119-129: a failed write is ignored; the loop
\* ends when recv returns Err.
WriterThread ==
  /\ writer = "running"
  /\ recv(request_channel, client = "live") # "Blocks"
  /\ IF recv(request_channel, client = "live") = "Ok"
     THEN /\ request_channel' = Tail(request_channel)
          /\ c2w' = IF worker = "running"
                    THEN [c2w EXCEPT ![ClientConn] =
                            Append(@, serialize_request(Head(request_channel)))]
                    ELSE c2w
          /\ UNCHANGED <<writer, hostEnd>>
     ELSE /\ writer' = "done"
          /\ hostEnd' = SocketAfter(client, reader, "done")
          /\ UNCHANGED <<request_channel, c2w>>
  /\ UNCHANGED <<manager, client, host, codec, workerVars, backlog, w2c,
                 REQUEST_ID_COUNTER, allocated, response_channel, reader, call,
                 elapsed, readTimer, returned>>

\* The reader thread, lines 101-115: a blocking read under the read
\* timeout set at line 94.  Data restarts the read; end of stream, an
\* error or the timeout ends the thread and drops response_sender.
ReaderThread(reads) ==
  /\ reader = "reading"
  /\ IF w2c[ClientConn] # <<>>
     THEN \E ch \in reads \cap ChoicesFor(w2c[ClientConn]) :
            /\ w2c' = [w2c EXCEPT ![ClientConn] = Rest(w2c[ClientConn], ch)]
            /\ response_channel' =
                 response_channel
                   \o deserialize_response(Chunk(w2c[ClientConn], ch))
            /\ call' = IF call.pc = "waiting"
                       THEN [call EXCEPT !.heard = TRUE] ELSE call
            /\ readTimer' = 0
            /\ UNCHANGED <<reader, hostEnd>>
     ELSE /\ worker # "running" \/ readTimer >= ReadTimeoutSecs
          /\ reader' = "done"
          /\ hostEnd' = SocketAfter(client, "done", writer)
          /\ UNCHANGED <<w2c, response_channel, call, readTimer>>
  /\ UNCHANGED <<manager, restVars, workerVars, backlog, c2w, REQUEST_ID_COUNTER,
                 allocated, request_channel, elapsed, returned>>

\* The client is dropped: request_sender, response_receiver and the
\* client's handle of the stream go; the two threads run on.
ClientDrop ==
  /\ client = "live"
  /\ call.pc # "waiting"
  /\ client' = "dropped"
  /\ hostEnd' = SocketAfter("dropped", reader, writer)
  /\ UNCHANGED <<manager, writer, host, codec, workerVars, backlog, c2w, w2c,
                 clientVars>>

\* Time passes.  A blocked read does not outlive its timeout, and a call
\* that is past its timeout returns before more time passes.
Tick ==
  /\ reader = "reading" \/ call.pc = "waiting"
  /\ reader = "reading" => readTimer < ReadTimeoutSecs
  /\ call.pc = "waiting" => elapsed <= RequestTimeoutSecs
  /\ readTimer' = IF reader = "reading" THEN readTimer + TimeStep ELSE readTimer
  /\ elapsed' = IF call.pc = "waiting" THEN elapsed + TimeStep ELSE elapsed
  /\ UNCHANGED <<manager, restVars, workerVars, socketVars, REQUEST_ID_COUNTER, allocated,
                 request_channel, response_channel, reader, call, returned>>

\* Time passes, also for a call that is past its timeout and has not yet
\* polled an empty queue: elapsed in excess of the timeout is not counted.
TimePasses ==
  /\ reader = "reading"
  /\ readTimer < ReadTimeoutSecs
  /\ readTimer' = readTimer + TimeStep
  /\ elapsed' = IF call.pc = "waiting" /\ elapsed <= RequestTimeoutSecs
                THEN elapsed + TimeStep ELSE elapsed
  /\ UNCHANGED <<manager, restVars, workerVars, socketVars, REQUEST_ID_COUNTER, allocated,
                 request_channel, response_channel, reader, call, returned>>

(***************************************************************************)
(* EventloopProcess (src/src/eventloop_process.rs): spawn and connect_ipc. *)
(* The child writes lines to its stdout and may exit at any time; spawn    *)
(* reads the lines until it finds the announcement of the port, waits,     *)
(* and asks try_wait whether the child has exited.                         *)
(*   pc          : "reading" | "checking" | "ok" (spawn returned a         *)
(*                 manager) | "err" (spawn returned an error)              *)
(*   lines       : what the child has written and spawn has not read       *)
(*   written     : how many lines the child has written                    *)
(*   child       : "running" | "exited" (a zombie until it is waited for)  *)
(*                 | "reaped"; stdout closes when it exits                 *)
(*   actual_port, ipc_port : {} for None, {p} for Some(p)                  *)
(*   exitedAtCheck : whether the child had exited when try_wait was called *)
(*   connected   : the ports connect_ipc has connected to                  *)
(*   life        : "none" (spawn has returned no manager) | "live" |       *)
(*                 "dropped" (Drop has run to its end)                     *)
(*   is_running, has_child : the fields is_running and child (is Some)     *)
(*   spc         : "idle" | "waiting" (stop is blocked in child.wait())    *)
(*   by          : "stop" | "drop", who made the call of stop in progress  *)
(*   calls, stops : calls of stop begun; explicit calls that returned Ok   *)
(*   kills, waits : calls of child.kill() and child.wait() made            *)
(***************************************************************************)
MaxPort == 1
MaxLines == 2
MaxStops == 2
Ports == 0..MaxPort

\* A line of the child's stdout: the announcement with a port that parses
\* as u16, the announcement text with a last word that does not, any other
\* line, or bytes for which BufRead::lines returns Err.
StdoutLines ==
  [kind : {"announce"}, port : Ports]
    \cup [kind : {"announce_bad", "other", "read_error"}, port : {0}]

Spawning ==
  [pc |-> "reading", lines |-> <<>>, written |-> 0, child |-> "running",
   actual_port |-> {}, ipc_port |-> {}, exitedAtCheck |-> FALSE,
   connected |-> {}, life |-> "none", is_running |-> FALSE,
   has_child |-> FALSE, spc |-> "idle", by |-> "stop", calls |-> 0,
   stops |-> 0, kills |-> 0, waits |-> 0,
   app |-> "none", exits |-> 0, dangling |-> FALSE]

\* A manager whose spawn has returned, the child running.
Started ==
  [Spawning EXCEPT !.pc = "ok", !.written = 1, !.actual_port = {MaxPort},
                   !.ipc_port = {MaxPort}, !.life = "live",
                   !.is_running = TRUE, !.has_child = TRUE]

\* What Child::try_wait can return for a child in state child.
try_wait(child) ==
  IF child = "exited" THEN {"Some", "Err"} ELSE {"None", "Err"}

\* spawn, lines 54-72: one turn of the loop over reader.lines(), given the
\* next line; and the end of the loop when stdout is closed.
spawn_line(m, line) ==
  CASE line.kind = "announce" ->
         [m EXCEPT !.actual_port = {line.port}, !.pc = "checking"]
    [] line.kind = "read_error" -> [m EXCEPT !.pc = "err"]
    [] OTHER -> m

spawn_eof(m) == [m EXCEPT !.pc = "err"]

\* spawn, lines 75-96: after the sleep, the match on child.try_wait().
\* try_wait reaps the child whose status it returns.
spawn_check(m, tw) ==
  IF tw = "Some"
  THEN [m EXCEPT !.pc = "err", !.exitedAtCheck = (m.child = "exited"),
                 !.child = "reaped"]
  ELSE [m EXCEPT !.pc = "ok", !.ipc_port = m.actual_port,
                 !.exitedAtCheck = (m.child = "exited"),
                 !.life = "live", !.is_running = TRUE, !.has_child = TRUE]

\* connect_ipc, lines 120-129.
connect_ipc(m) == [m EXCEPT !.connected = m.connected \cup m.ipc_port]

\* Child::kill: SIGKILL ends a running child; a child that has exited and
\* was not waited for is left as it is.  killOk is the result of the call.
kill(child, killOk) == IF killOk /\ child = "running" THEN "exited" ELSE child

\* A faulty variant of stop: the child is borrowed, not taken out of the
\* manager (as_mut in place of take at line 108).
stop_NoTake(m, killOk) ==
  IF m.has_child
  THEN [m EXCEPT !.is_running = FALSE, !.kills = @ + 1,
                 !.child = kill(m.child, killOk), !.spc = "waiting"]
  ELSE [m EXCEPT !.is_running = FALSE]

\* stop, lines 106-112: up to the call of child.wait().
stop(m, killOk) ==
  IF m.has_child
  THEN [m EXCEPT !.is_running = FALSE, !.has_child = FALSE, !.kills = @ + 1,
                 !.child = kill(m.child, killOk), !.spc = "waiting"]
  ELSE [m EXCEPT !.is_running = FALSE]

\* stop, line 113: child.wait() returns once the child has exited; the
\* child is reaped.
stop_wait(m) ==
  [m EXCEPT !.child = "reaped", !.waits = @ + 1, !.spc = "idle"]

\* stop, line 116: the call returns Ok; a call made by Drop ends the
\* manager.
stop_return(m) ==
  IF m.spc # "idle" THEN m
  ELSE IF m.by = "drop" THEN [m EXCEPT !.life = "dropped"]
  ELSE [m EXCEPT !.stops = @ + 1]

\* A faulty variant of drop: the manager is discarded and stop not called.
drop_Forget(m, killOk) == [m EXCEPT !.by = "drop", !.life = "dropped"]

\* Drop for EventloopProcess, lines 175-180.
drop(m, killOk) == stop_return(stop([m EXCEPT !.by = "drop", !.calls = @ + 1], killOk))

ChildWrites(line) ==
  /\ manager.child = "running"
  /\ manager.pc \in {"reading", "checking"}
  /\ manager.written < MaxLines
  /\ manager' = [manager EXCEPT !.lines = Append(@, line), !.written = @ + 1]
  /\ UNCHANGED <<workerVars, socketVars, clientVars, restVars>>

ChildExits ==
  /\ manager.child = "running"
  /\ manager.pc \in {"reading", "checking", "ok"}
  /\ manager' = [manager EXCEPT !.child = "exited"]
  /\ UNCHANGED <<workerVars, socketVars, clientVars, restVars>>

SpawnReadLine ==
  /\ manager.pc = "reading"
  /\ IF manager.lines # <<>>
     THEN manager' = spawn_line([manager EXCEPT !.lines = Tail(@)],
                                Head(manager.lines))
     ELSE /\ manager.child = "exited"
          /\ manager' = spawn_eof(manager)
  /\ UNCHANGED <<workerVars, socketVars, clientVars, restVars>>

SpawnCheck ==
  /\ manager.pc = "checking"
  /\ \E tw \in try_wait(manager.child) : manager' = spawn_check(manager, tw)
  /\ UNCHANGED <<workerVars, socketVars, clientVars, restVars>>

ConnectIpc ==
  /\ manager.life = "live"
  /\ manager.spc = "idle"
  /\ manager.connected = {}
  /\ manager' = connect_ipc(manager)
  /\ UNCHANGED <<workerVars, socketVars, clientVars, restVars>>

\* An explicit call of stop.
Stop ==
  /\ manager.life = "live"
  /\ manager.spc = "idle"
  /\ manager.stops < MaxStops
  /\ \E killOk \in BOOLEAN :
       manager' = stop_return(stop([manager EXCEPT !.by = "stop", !.calls = @ + 1],
                                   killOk))
  /\ UNCHANGED <<workerVars, socketVars, clientVars, restVars>>

\* The call of stop in progress gets the child's exit status and returns.
StopWait ==
  /\ manager.spc = "waiting"
  /\ manager.child = "exited"
  /\ manager' = stop_return(stop_wait(manager))
  /\ UNCHANGED <<workerVars, socketVars, clientVars, restVars>>

\* The manager is discarded.
Drop ==
  /\ manager.life = "live"
  /\ manager.spc = "idle"
  /\ \E killOk \in BOOLEAN : manager' = drop(manager, killOk)
  /\ UNCHANGED <<workerVars, socketVars, clientVars, restVars>>

(***************************************************************************)
(* The remote-mode Application as owner of the manager (src/src/lib.rs).   *)
(*   app      : "none" | "live" | "dropped" | "crashed": the Application,  *)
(*              which keeps the manager as a raw pointer                   *)
(*   exits    : calls of exit so far                                       *)
(*   dangling : Box::from_raw was applied to the pointer after the manager *)
(*              had been released                                          *)
(***************************************************************************)
MaxExits == 2

\* Application::new_non_blocking, lines 175-194: Box::into_raw.
new_non_blocking(m) == [m EXCEPT !.app = "live"]

\* `let _ = Box::from_raw(ptr).stop();`, lines 364-368 and 465-469: stop is
\* called on the manager and the temporary Box is dropped at the end of the
\* statement, which runs Drop for EventloopProcess and releases the
\* manager.  The field _eventloop_process keeps the pointer; on a manager
\* already released the statement reads and frees released memory.
from_raw_stop(m, killOk) ==
  IF m.life = "live" THEN drop([m EXCEPT !.calls = @ + 1], killOk)
  ELSE [m EXCEPT !.dangling = TRUE]

\* What the host process does after the statement: it runs on, unless the
\* statement touched released memory, which the process may not survive.
Outcomes(m) == IF m.dangling THEN {"runs", "crashes"} ELSE {"runs"}

NewNonBlocking ==
  /\ manager.life = "live"
  /\ manager.spc = "idle"
  /\ manager.connected # {}
  /\ manager.app = "none"
  /\ manager' = new_non_blocking(manager)
  /\ UNCHANGED <<workerVars, socketVars, clientVars, restVars>>

\* Application::exit, lines 351-374, in remote mode.
Application_exit ==
  /\ manager.app = "live"
  /\ manager.spc = "idle"
  /\ manager.exits < MaxExits
  /\ \E killOk \in BOOLEAN :
       \E o \in Outcomes(from_raw_stop(manager, killOk)) :
         manager' = [from_raw_stop(manager, killOk) EXCEPT
                       !.exits = @ + 1,
                       !.app = IF o = "crashes" THEN "crashed" ELSE @]
  /\ UNCHANGED <<workerVars, socketVars, clientVars, restVars>>

\* Drop for Application, lines 461-474, in remote mode.
Application_drop ==
  /\ manager.app = "live"
  /\ manager.spc = "idle"
  /\ \E killOk \in BOOLEAN :
       \E o \in Outcomes(from_raw_stop(manager, killOk)) :
         manager' = [from_raw_stop(manager, killOk) EXCEPT
                       !.app = IF o = "crashes" THEN "crashed" ELSE "dropped"]
  /\ UNCHANGED <<workerVars, socketVars, clientVars, restVars>>

(***************************************************************************)
(* The queued Application (src/src/high_level.rs).  Windows and webviews   *)
(* are numbered in the order of their requests.                            *)
(*   event_loop        : the Option of the field is Some                   *)
(*   state             : "idle" | "running" | "exited": the call of run    *)
(*   exit_requested    : the flag exit sets                                *)
(*   windows_to_create : the windows queued for the loop                   *)
(*   windows[w]        : inner (the window was built), failed (the toolkit *)
(*                       refused it), webviews_to_create (its own queue)   *)
(*   webviews[v]       : window, inner (the webview was built), builds     *)
(*                       (how often), failed (the toolkit refused it),     *)
(*                       late (requested when the window was built), seen  *)
(*                       (the loop has iterated since the request)         *)
(***************************************************************************)
MaxQueuedWindows == 2
MaxQueuedWebviews == 2

\* Application::new, lines 170-181.
Application_new ==
  [event_loop |-> TRUE, state |-> "idle", exit_requested |-> FALSE,
   windows_to_create |-> <<>>, windows |-> <<>>, webviews |-> <<>>]

\* Application::create_browser_window, lines 194-225.
queue_window(q) ==
  [q EXCEPT
     !.windows = Append(@, [inner |-> FALSE, failed |-> FALSE,
                            webviews_to_create |-> <<>>]),
     !.windows_to_create = Append(@, Len(q.windows) + 1)]

\* BrowserWindow::create_webview, lines 342-372: the request is pushed on
\* the queue of its window, whatever the state of the window.
queue_webview(q, w) ==
  [q EXCEPT
     !.webviews = Append(@, [window |-> w, inner |-> FALSE, builds |-> 0,
                             failed |-> FALSE, late |-> q.windows[w].inner,
                             seen |-> FALSE]),
     !.windows[w].webviews_to_create = Append(@, Len(q.webviews) + 1)]

\* Application::run, lines 251-307: the closure drains windows_to_create;
\* for each window the toolkit builds (okW) it drains the queue of the
\* window and stores each webview the toolkit builds (okV).  The queue of a
\* window is looked at here only, while the window is being built.
drain(q, okW, okV) ==
  LET pending == Range(q.windows_to_create)
      built == pending \cap okW
      tried == {v \in DOMAIN q.webviews :
                  /\ q.webviews[v].window \in built
                  /\ v \in Range(q.windows[q.webviews[v].window].webviews_to_create)}
  IN [q EXCEPT
        !.windows_to_create = <<>>,
        !.windows = [w \in DOMAIN q.windows |->
                       IF w \in built
                       THEN [q.windows[w] EXCEPT !.inner = TRUE,
                                                 !.webviews_to_create = <<>>]
                       ELSE IF w \in pending
                       THEN [q.windows[w] EXCEPT !.failed = TRUE]
                       ELSE q.windows[w]],
        !.webviews = [v \in DOMAIN q.webviews |->
                        IF v \in tried /\ v \in okV
                        THEN [q.webviews[v] EXCEPT !.inner = TRUE,
                                                   !.builds = @ + 1,
                                                   !.seen = TRUE]
                        ELSE IF v \in tried
                        THEN [q.webviews[v] EXCEPT !.failed = TRUE,
                                                   !.seen = TRUE]
                        ELSE [q.webviews[v] EXCEPT !.seen = TRUE]]]

\* One call of the closure, lines 241-309, for an event that is
\* CloseRequested (close) or not.
closure(q, okW, okV, close) ==
  IF q.exit_requested THEN [q EXCEPT !.state = "exited"]
  ELSE [drain(q, okW, okV) EXCEPT !.state = IF close THEN "exited" ELSE @]

QueueWindow ==
  /\ Len(host.queued.windows) < MaxQueuedWindows
  /\ host' = [host EXCEPT !.queued = queue_window(@)]
  /\ UNCHANGED <<workerVars, socketVars, clientVars, manager, client, writer, codec>>

QueueWebview(w) ==
  /\ w \in DOMAIN host.queued.windows
  /\ Len(host.queued.webviews) < MaxQueuedWebviews
  /\ host' = [host EXCEPT !.queued = queue_webview(@, w)]
  /\ UNCHANGED <<workerVars, socketVars, clientVars, manager, client, writer, codec>>

\* Application::exit, lines 228-231.
QueuedExit ==
  /\ ~host.queued.exit_requested
  /\ host' = [host EXCEPT !.queued.exit_requested = TRUE]
  /\ UNCHANGED <<workerVars, socketVars, clientVars, manager, client, writer, codec>>

\* Application::run, lines 234-240: event_loop.take().
QueuedRun ==
  /\ host.queued.state = "idle"
  /\ host.queued.event_loop
  /\ host' = [host EXCEPT !.queued.event_loop = FALSE,
                           !.queued.state = "running"]
  /\ UNCHANGED <<workerVars, socketVars, clientVars, manager, client, writer, codec>>

\* The event loop calls the closure with an event.
Closure ==
  /\ host.queued.state = "running"
  /\ \E okW \in SUBSET DOMAIN host.queued.windows,
        okV \in SUBSET DOMAIN host.queued.webviews, close \in BOOLEAN :
       host' = [host EXCEPT !.queued = closure(@, okW, okV, close)]
  /\ UNCHANGED <<workerVars, socketVars, clientVars, manager, client, writer, codec>>

(***************************************************************************)
(* The proxies of the host process (src/src/lib.rs, browser_window.rs,     *)
(* webview.rs).                                                            *)
(***************************************************************************)
\* host: the static WINDOW_ID_COUNTER with the handles it has handed out
\* and the mode of the call that took each (taken), the fields of the
\* remote-mode Application, the event_loop field of a direct-mode
\* Application of the same process, the BrowserWindow objects
\* (windows) and JsWebview proxies (webviews) handed to the caller, the
\* blocking operation in progress (op), the operation that returned last
\* (last) and the names of the operations that sent a request (log).  Of an
\* operation, sent is what request_sender.send returned, closed whether the
\* worker's end of the socket was gone when it was called, reply what
\* send_request returned and answer what a query returned.
MaxProxyRequestId == 3

NoOp ==
  [name |-> "none", window_id |-> 0, result |-> "none", sent |-> "none",
   closed |-> FALSE, reply |-> <<>>, answer |-> {}, ipc |-> TRUE]

HostStart ==
  [WINDOW_ID_COUNTER |-> 1, taken |-> <<>>, event_loop |-> TRUE,
   open_windows |-> {}, windows |-> <<>>, webviews |-> {}, op |-> NoOp, last |-> NoOp, log |-> <<>>,
   queued |-> Application_new]

\* BrowserWindow::new_ipc_proxy, and the object BrowserWindow::new returns.
new_ipc_proxy(window_id) ==
  [id |-> window_id, ipc |-> TRUE, window |-> {}, is_child_window |-> FALSE]
BrowserWindow_new(child, window_id) ==
  [id |-> window_id, ipc |-> FALSE, window |-> {[visible |-> TRUE]},
   is_child_window |-> child]

\* BrowserWindow::is_child.
is_child(bw) == bw.is_child_window

\* A faulty variant of fetch_add: the counter is read, not advanced.
fetch_add_Load(counter) == [id |-> counter, counter |-> counter]

\* WINDOW_ID_COUNTER.fetch_add(1, SeqCst).
fetch_add(counter) == [id |-> counter, counter |-> counter + 1]

BlockingOps ==
  {"create_browser_window", "create_child_browser_window", "create_webview",
   "load_url", "load_html", "evaluate_script"}
CreateOps == {"create_browser_window", "create_child_browser_window"}
AsyncOps ==
  {"set_title", "set_visible", "show", "hide", "close", "destroy", "close_window"}
Queries == {"is_visible", "is_maximized", "get_title"}

\* A faulty variant of RequestOf: close asks the worker to close the window.
RequestOf_CloseCloses(name, h, arg) ==
  CASE name \in CreateOps ->
         [kind |-> "CreateBrowserWindow", window_id |-> h, arg |-> "none"]
    [] name = "create_webview" ->
         [kind |-> "CreateWebview", window_id |-> h, arg |-> "none"]
    [] name = "load_url" -> [kind |-> "LoadUrl", window_id |-> h, arg |-> "none"]
    [] name = "load_html" -> [kind |-> "LoadHtml", window_id |-> h, arg |-> "none"]
    [] name = "evaluate_script" ->
         [kind |-> "EvaluateScript", window_id |-> h, arg |-> "none"]
    [] name = "set_title" ->
         [kind |-> "SetWindowTitle", window_id |-> h, arg |-> "T"]
    [] name = "set_visible" ->
         [kind |-> "SetWindowVisible", window_id |-> h, arg |-> arg]
    [] name = "show" -> [kind |-> "SetWindowVisible", window_id |-> h, arg |-> TRUE]
    [] name \in {"hide", "destroy"} ->
         [kind |-> "SetWindowVisible", window_id |-> h, arg |-> FALSE]
    [] name \in {"close", "close_window"} ->
         [kind |-> "CloseWindow", window_id |-> h, arg |-> "none"]

\* The request a proxy operation builds in remote mode.
RequestOf(name, h, arg) ==
  CASE name \in CreateOps ->
         [kind |-> "CreateBrowserWindow", window_id |-> h, arg |-> "none"]
    [] name = "create_webview" ->
         [kind |-> "CreateWebview", window_id |-> h, arg |-> "none"]
    [] name = "load_url" -> [kind |-> "LoadUrl", window_id |-> h, arg |-> "none"]
    [] name = "load_html" -> [kind |-> "LoadHtml", window_id |-> h, arg |-> "none"]
    [] name = "evaluate_script" ->
         [kind |-> "EvaluateScript", window_id |-> h, arg |-> "none"]
    [] name = "set_title" ->
         [kind |-> "SetWindowTitle", window_id |-> h, arg |-> "T"]
    [] name = "set_visible" ->
         [kind |-> "SetWindowVisible", window_id |-> h, arg |-> arg]
    [] name = "show" -> [kind |-> "SetWindowVisible", window_id |-> h, arg |-> TRUE]
    [] name \in {"hide", "close", "destroy"} ->
         [kind |-> "SetWindowVisible", window_id |-> h, arg |-> FALSE]
    [] name = "close_window" ->
         [kind |-> "CloseWindow", window_id |-> h, arg |-> "none"]

\* The handle a blocking operation is about: a creation takes it from the
\* counter, the others have it in their object.
HandleOf(name, h) == IF name \in CreateOps THEN host.WINDOW_ID_COUNTER ELSE h

\* host once the creation name, in mode ipc, has taken handle g.id.
TookHandle(hst, g, ipc, name) ==
  [hst EXCEPT !.WINDOW_ID_COUNTER = g.counter,
              !.taken = Append(@, [id |-> g.id, ipc |-> ipc, name |-> name])]

\* A blocking operation up to its call of send_request.
ProxyCall(name, h) ==
  /\ host.op.name = "none"
  /\ REQUEST_ID_COUNTER <= MaxProxyRequestId
  /\ IF name \in CreateOps THEN host.WINDOW_ID_COUNTER <= MaxHandle
     ELSE IF name = "create_webview"
     THEN h \in DOMAIN host.windows /\ host.windows[h].ipc
     ELSE h \in host.webviews
  /\ send_request(RequestOf(name, HandleOf(name, h), "none"))
  /\ host' = [(IF name \in CreateOps
               THEN TookHandle(host, fetch_add(host.WINDOW_ID_COUNTER), TRUE, name)
               ELSE host)
                EXCEPT !.op = [NoOp EXCEPT !.name = name,
                                           !.window_id = HandleOf(name, h)],
                       !.log = Append(@, name)]

\* What a blocking operation returns, given what send_request returned:
\* `client.send_request(request).map_err(..)?` and then Ok(..).
proxy_result(result, resp) == IF result = "Ok" THEN "Ok" ELSE "Err"

\* host once the blocking operation in progress has returned res.
Returned(hst, res) ==
  [hst EXCEPT
     !.op = NoOp,
     !.last = [hst.op EXCEPT !.result = res, !.reply = call.resp],
     !.open_windows = IF res = "Ok" /\ hst.op.name \in CreateOps
                      THEN @ \cup {hst.op.window_id} ELSE @,
     !.windows = IF res = "Ok" /\ hst.op.name \in CreateOps
                 THEN Insert(@, hst.op.window_id, new_ipc_proxy(hst.op.window_id))
                 ELSE @,
     !.webviews = IF res = "Ok" /\ hst.op.name = "create_webview"
                  THEN @ \cup {hst.op.window_id} ELSE @]

\* The blocking operation in progress returns to its caller.
ProxyReturn ==
  /\ host.op.name # "none"
  /\ call.pc = "returned"
  /\ host' = Returned(host, proxy_result(call.result, call.resp))
  /\ UNCHANGED <<workerVars, socketVars, clientVars, manager, client, writer, codec>>

\* A faulty variant of send: it fails once the socket is closed.
send_FailsWhenClosed(w) ==
  IF w = "running" /\ reader = "reading" /\ worker = "running" THEN "Ok" ELSE "Err"

\* request_sender.send: it fails only when the writer thread, which holds
\* the receiver, has ended.
send(w) == IF w = "running" THEN "Ok" ELSE "Err"

\* A fire-and-forget operation: the result of send_request_async is
\* discarded (`let _ =`); close_window forgets the window.
ProxyAsync(name, h, arg) ==
  /\ host.op.name = "none"
  /\ REQUEST_ID_COUNTER <= MaxProxyRequestId
  /\ name # "close_window" => h \in DOMAIN host.windows /\ host.windows[h].ipc
  /\ name # "set_visible" => arg
  /\ send_request_async(RequestOf(name, h, arg))
  /\ host' = [host EXCEPT
                !.last = [NoOp EXCEPT !.name = name, !.window_id = h,
                                      !.sent = send(writer), !.result = "Ok",
                                      !.closed = (worker # "running")],
                !.open_windows = IF name = "close_window" THEN @ \ {h} ELSE @,
                !.log = Append(@, name)]

\* A faulty variant of RemoteQuery: the answer follows what the proxy has
\* asked the worker to do.
RemoteQuery_Tracking(name, bw) ==
  CASE name = "is_visible" ->
         IF \E i \in DOMAIN host.log : host.log[i] = "hide" THEN FALSE ELSE TRUE
    [] name = "is_maximized" -> FALSE
    [] name = "get_title" ->
         IF \E i \in DOMAIN host.log : host.log[i] = "set_title"
         THEN "T" ELSE "WebviewJS"

\* is_visible, is_maximized and get_title of a remote-mode BrowserWindow.
RemoteQuery(name, bw) ==
  CASE name = "is_visible" -> TRUE
    [] name = "is_maximized" -> FALSE
    [] name = "get_title" -> "WebviewJS"

\* A read-only query on the proxy of window h.
ProxyQuery(name, h) ==
  /\ host.op.name = "none"
  /\ h \in DOMAIN host.windows /\ host.windows[h].ipc
  /\ host' = [host EXCEPT
                !.last = [NoOp EXCEPT !.name = name, !.window_id = h,
                                      !.answer = {RemoteQuery(name, host.windows[h])}]]
  /\ UNCHANGED <<workerVars, socketVars, clientVars, manager, client, writer, codec>>

\* Application::run in direct mode: the event loop is taken out of the
\* Application; from then on the host runs inside the loop's callbacks.
run ==
  /\ host.op.name = "none"
  /\ host.event_loop
  /\ host' = [host EXCEPT !.event_loop = FALSE]
  /\ UNCHANGED <<workerVars, socketVars, clientVars, manager, client, writer, codec>>

\* host after create_browser_window or create_child_browser_window (name)
\* of the direct-mode Application: with no event loop the call fails at
\* once; otherwise the handle is taken and the toolkit builds the window
\* (tk) or fails.
create_direct(hst, name, tk) ==
  IF ~hst.event_loop
  THEN [hst EXCEPT !.last = [NoOp EXCEPT !.name = name,
                                         !.result = "Err", !.ipc = FALSE]]
  ELSE [TookHandle(hst, fetch_add(hst.WINDOW_ID_COUNTER), FALSE, name) EXCEPT
          !.last = [NoOp EXCEPT !.name = name,
                                !.window_id = hst.WINDOW_ID_COUNTER,
                                !.result = IF tk THEN "Ok" ELSE "Err",
                                !.ipc = FALSE],
          !.open_windows = IF tk THEN @ \cup {hst.WINDOW_ID_COUNTER} ELSE @,
          !.windows = IF tk
                      THEN Insert(@, hst.WINDOW_ID_COUNTER,
                                  BrowserWindow_new(
                                    name = "create_child_browser_window",
                                    hst.WINDOW_ID_COUNTER))
                      ELSE @]

CreateDirect(name, tk) ==
  /\ host.op.name = "none"
  /\ host.event_loop => host.WINDOW_ID_COUNTER <= MaxHandle
  /\ host' = create_direct(host, name, tk)
  /\ UNCHANGED <<workerVars, socketVars, clientVars, manager, client, writer, codec>>

(***************************************************************************)
(* The wire encoding (serde_json over the derived Serialize/Deserialize).  *)
(***************************************************************************)
\* The bytes serde_json writes are the text of a JSON value, and what it
\* reads it parses into one: the bytes are modelled by that value.  An
\* object is its keys and their values, in order.
JNull == [j |-> "null"]
JNum(n) == [j |-> "num", n |-> n]
JStr(str) == [j |-> "str", s |-> str]
JBool(b) == [j |-> "bool", b |-> b]
JObj(keys, vals) == [j |-> "obj", keys |-> keys, vals |-> vals]

\* The fields of the variants of IpcRequest and IpcResponse with their
\* types: u (u32, u64), str (String), bool, value (serde_json::Value),
\* opt_value (Option<Value>) and opt_u (Option<u32>).  An Option is the
\* empty set (None) or a singleton (Some).
Fields(kind) ==
  CASE kind = "CreateBrowserWindow" ->
         <<<<"window_id", "u">>, <<"options", "value">>, <<"is_child", "bool">>>>
    [] kind = "CloseWindow" -> <<<<"window_id", "u">>>>
    [] kind = "CreateWebview" -> <<<<"window_id", "u">>, <<"options", "value">>>>
    [] kind = "EvaluateScript" -> <<<<"window_id", "u">>, <<"script", "str">>>>
    [] kind = "LoadUrl" -> <<<<"window_id", "u">>, <<"url", "str">>>>
    [] kind = "LoadHtml" -> <<<<"window_id", "u">>, <<"html", "str">>>>
    [] kind = "SetWindowVisible" -> <<<<"window_id", "u">>, <<"visible", "bool">>>>
    [] kind = "SetWindowTitle" -> <<<<"window_id", "u">>, <<"title", "str">>>>
    [] kind = "Success" -> <<<<"request_id", "u">>, <<"data", "opt_value">>>>
    [] kind = "Error" -> <<<<"request_id", "u">>, <<"message", "str">>>>
    [] kind = "ApplicationEvent" ->
         <<<<"event_type", "str">>, <<"window_id", "opt_u">>>>
    [] OTHER -> <<>>

RequestKinds ==
  {"CreateBrowserWindow", "CloseWindow", "CreateWebview", "EvaluateScript",
   "LoadUrl", "LoadHtml", "SetWindowVisible", "SetWindowTitle", "Exit", "Ping"}
ResponseKinds == {"Success", "Error", "ApplicationEvent", "Pong"}

\* The values the codec is tried on.
MaxCodecId == 1
CodecValues(type) ==
  CASE type = "u" -> 0..MaxCodecId
    [] type = "str" -> {"", "x"}
    [] type = "bool" -> BOOLEAN
    [] type = "value" -> {JNull, JObj(<<"width">>, <<JNum(1)>>)}
    [] type = "opt_value" -> {{}, {JNull}, {JObj(<<"window_id">>, <<JNum(1)>>)}}
    [] type = "opt_u" -> {{}, {1}}

\* The values of variant kind: one record for every choice of its fields.
Variant(kind) ==
  LET fs == Fields(kind)
      T(i) == IF i <= Len(fs) THEN CodecValues(fs[i][2]) ELSE {0}
  IN {[f \in {"kind"} \cup {fs[i][1] : i \in DOMAIN fs} |->
         IF f = "kind" THEN kind
         ELSE IF f = fs[1][1] THEN a
         ELSE IF f = fs[2][1] THEN b ELSE c] : a \in T(1), b \in T(2), c \in T(3)}

\* Serialize and Deserialize of a field, by its type.  Deserialize yields
\* the empty set for an error, else the singleton of the value.
SerializeField(type, x) ==
  CASE type = "u" -> JNum(x)
    [] type = "str" -> JStr(x)
    [] type = "bool" -> JBool(x)
    [] type = "value" -> x
    [] type = "opt_value" -> IF x = {} THEN JNull ELSE CHOOSE v \in x : TRUE
    [] type = "opt_u" -> IF x = {} THEN JNull ELSE JNum(CHOOSE v \in x : TRUE)

DeserializeField(type, t) ==
  CASE type = "u" -> IF t.j = "num" THEN {t.n} ELSE {}
    [] type = "str" -> IF t.j = "str" THEN {t.s} ELSE {}
    [] type = "bool" -> IF t.j = "bool" THEN {t.b} ELSE {}
    [] type = "value" -> {t}
    [] type = "opt_value" -> IF t.j = "null" THEN {{}} ELSE {{t}}
    [] type = "opt_u" ->
         IF t.j = "null" THEN {{}} ELSE IF t.j = "num" THEN {{t.n}} ELSE {}

\* The derived Serialize of an enum: a unit variant is its name, a
\* variant with fields an object with the name as its only key.
Serialize(v) ==
  LET fs == Fields(v.kind) IN
  IF fs = <<>> THEN JStr(v.kind)
  ELSE JObj(<<v.kind>>,
            <<JObj([i \in DOMAIN fs |-> fs[i][1]],
                   [i \in DOMAIN fs |-> SerializeField(fs[i][2], v[fs[i][1]])])>>)

\* Field name of object o as type: a missing Option is None, another
\* missing field an error.
FieldOf(o, name, type) ==
  IF \E i \in DOMAIN o.keys : o.keys[i] = name
  THEN DeserializeField(type, o.vals[CHOOSE i \in DOMAIN o.keys : o.keys[i] = name])
  ELSE IF type \in {"opt_value", "opt_u"} THEN {{}} ELSE {}

\* The derived Deserialize of a struct with fields fs, tagged with kind.
DeserializeStruct(kind, fs, o) ==
  IF o.j # "obj" THEN {}
  ELSE IF \E i \in DOMAIN fs : FieldOf(o, fs[i][1], fs[i][2]) = {} THEN {}
  ELSE {[f \in {"kind"} \cup {fs[i][1] : i \in DOMAIN fs} |->
           IF f = "kind" THEN kind
           ELSE LET i == CHOOSE k \in DOMAIN fs : fs[k][1] = f
                IN CHOOSE x \in FieldOf(o, f, fs[i][2]) : TRUE]}

\* The derived Deserialize of an enum with variants kinds.
Deserialize(t, kinds) ==
  IF t.j = "str"
  THEN IF t.s \in kinds /\ Fields(t.s) = <<>> THEN {[kind |-> t.s]} ELSE {}
  ELSE IF t.j = "obj" /\ Len(t.keys) = 1 /\ t.keys[1] \in kinds
            /\ Fields(t.keys[1]) # <<>>
  THEN DeserializeStruct(t.keys[1], Fields(t.keys[1]), t.vals[1])
  ELSE {}

\* serde_json::to_vec and from_slice of IpcMessage<T>.
to_vec(message) ==
  JObj(<<"request_id", "payload">>,
       <<JNum(message.request_id), Serialize(message.payload)>>)

from_slice(t, kinds) ==
  IF t.j # "obj" THEN {}
  ELSE IF FieldOf(t, "request_id", "u") = {} THEN {}
  ELSE IF ~\E i \in DOMAIN t.keys : t.keys[i] = "payload" THEN {}
  ELSE {[request_id |-> id, payload |-> pl] :
          id \in FieldOf(t, "request_id", "u"),
          pl \in Deserialize(t.vals[CHOOSE i \in DOMAIN t.keys :
                                      t.keys[i] = "payload"], kinds)}

\* deserialize_response, lines 358-372, on the bytes of a JSON value: a
\* bare IpcResponse is tried first and given id 0, an envelope second.
deserialize_response_bytes(t) ==
  IF Deserialize(t, ResponseKinds) # {}
  THEN {[request_id |-> 0, payload |-> pl] : pl \in Deserialize(t, ResponseKinds)}
  ELSE from_slice(t, ResponseKinds)

\* codec: a message on its way through serialize and deserialize.
CodecIdle == [stage |-> "idle"]

Encoded(message) ==
  [stage |-> "encoded", message |-> message, bytes |-> to_vec(message)]

\* serialize_request and serialize_response, lines 348-350 and 375-381.
SerializeRequest ==
  /\ codec.stage = "idle"
  /\ \E id \in 1..MaxCodecId, kind \in RequestKinds :
       \E payload \in Variant(kind) :
         codec' = Encoded([request_id |-> id, payload |-> payload])
  /\ UNCHANGED <<workerVars, socketVars, clientVars, manager, client, writer, host>>

SerializeResponse ==
  /\ codec.stage = "idle"
  /\ \E id \in 0..MaxCodecId, kind \in ResponseKinds :
       \E payload \in Variant(kind) :
         codec' = Encoded([request_id |-> id, payload |-> payload])
  /\ UNCHANGED <<workerVars, socketVars, clientVars, manager, client, writer, host>>

\* deserialize_request, lines 353-355, and deserialize_response.
DeserializeRequest ==
  /\ codec.stage = "encoded"
  /\ codec.message.payload.kind \in RequestKinds
  /\ codec' = [codec EXCEPT !.stage = "decoded"]
                 @@ [out |-> from_slice(codec.bytes, RequestKinds)]
  /\ UNCHANGED <<workerVars, socketVars, clientVars, manager, client, writer, host>>

DeserializeResponse ==
  /\ codec.stage = "encoded"
  /\ codec.message.payload.kind \in ResponseKinds
  /\ codec' = [codec EXCEPT !.stage = "decoded"]
                 @@ [out |-> deserialize_response_bytes(codec.bytes)]
  /\ UNCHANGED <<workerVars, socketVars, clientVars, manager, client, writer, host>>

(***************************************************************************)
(* Specifications.                                                         *)
(***************************************************************************)
WorkerStart ==
  /\ manager = Started
  /\ window_manager = WindowManager_new
  /\ streams = <<>>
  /\ should_exit = FALSE
  /\ worker = "running"
  /\ eventQueue = <<>>
  /\ c2w = [c \in Conns |-> <<>>]
  /\ w2c = [c \in Conns |-> <<>>]

ClientStart(r) ==
  /\ REQUEST_ID_COUNTER = 1
  /\ allocated = <<>>
  /\ request_channel = <<>>
  /\ response_channel = <<>>
  /\ reader = r
  /\ call = Idle
  /\ elapsed = 0
  /\ readTimer = 0
  /\ returned = <<>>
  /\ client = IF r = "none" THEN "none" ELSE "live"
  /\ writer = IF r = "none" THEN "none" ELSE "running"
  /\ host = HostStart
  /\ codec = CodecIdle

\* The worker has announced its port and IpcClient::connect has returned.
Init ==
  /\ WorkerStart
  /\ backlog = <<ClientConn>>
  /\ hostEnd = [c \in Conns |-> IF c = ClientConn THEN "open" ELSE "free"]
  /\ ClientStart("reading")

\* What the proxies of this model send through the client.
ClientRequests ==
  {r \in IpcRequest :
     \/ r.kind = "Ping"
     \/ r.kind = "CreateBrowserWindow" /\ r.window_id = Min(Handles)}

Next ==
  \/ \E request \in ClientRequests : SendRequest(request)
  \/ SendRequestLoop
  \/ \E request \in ClientRequests : SendRequestAsync(request)
  \/ TryRecvEvent
  \/ OtherCaller
  \/ WriterThread
  \/ ReaderThread(WholeReads)
  \/ Tick
  \/ event_loop_run(WholeReads)
  \/ \E t \in TaoIds : UserClose(t)
  \/ WorkerKilled

Spec == Init /\ [][Next]_vars

\* The client with its two threads, the client object free to be dropped.
\* Each thread keeps running while it can take a step, and time passes.
ClientNext ==
  \/ \E request \in ClientRequests : SendRequest(request)
  \/ SendRequestLoop
  \/ \E request \in ClientRequests : SendRequestAsync(request)
  \/ WriterThread
  \/ ReaderThread(WholeReads)
  \/ Tick
  \/ event_loop_run(WholeReads)
  \/ WorkerKilled
  \/ ClientDrop

\* The proxies of a host in remote mode, over the client and the worker.
ProxyNext ==
  \/ \E name \in BlockingOps, h \in Handles : ProxyCall(name, h)
  \/ ProxyReturn
  \/ \E name \in AsyncOps, h \in Handles, arg \in BOOLEAN : ProxyAsync(name, h, arg)
  \/ \E name \in Queries, h \in Handles : ProxyQuery(name, h)
  \/ SendRequestLoop
  \/ WriterThread
  \/ ReaderThread(WholeReads)
  \/ event_loop_run(WholeReads)
  \/ WorkerKilled

ProxySpec == Init /\ [][ProxyNext]_vars

\* The creation of windows alone, by a remote-mode and a direct-mode
\* Application of one host process.
HandleNext ==
  \/ \E name \in CreateOps : ProxyCall(name, host.WINDOW_ID_COUNTER)
  \/ ProxyReturn
  \/ \E name \in CreateOps, tk \in BOOLEAN : CreateDirect(name, tk)
  \/ run
  \/ SendRequestLoop
  \/ WriterThread
  \/ ReaderThread(WholeReads)
  \/ event_loop_run(WholeReads)
  \/ WorkerKilled

HandleSpec == Init /\ [][HandleNext]_vars

\* The windows of a remote-mode Application: created and closed by the
\* host, closed natively by the user.
OpenNext ==
  \/ ProxyCall("create_browser_window", host.WINDOW_ID_COUNTER)
  \/ ProxyReturn
  \/ \E h \in Handles : ProxyAsync("close_window", h, TRUE)
  \/ SendRequestLoop
  \/ WriterThread
  \/ ReaderThread(WholeReads)
  \/ event_loop_run(WholeReads)
  \/ \E t \in TaoIds : UserClose(t)

OpenSpec == Init /\ [][OpenNext]_vars

\* The queued Application and its callers.
QueuedNext ==
  \/ QueueWindow
  \/ \E w \in 1..MaxQueuedWindows : QueueWebview(w)
  \/ QueuedExit
  \/ QueuedRun
  \/ Closure

QueuedSpec == Init /\ [][QueuedNext]_vars

\* The wire encoding alone, applied to every message of the bounded sets.
CodecNext ==
  \/ SerializeRequest
  \/ SerializeResponse
  \/ DeserializeRequest
  \/ DeserializeResponse

CodecSpec == Init /\ [][CodecNext]_vars

\* The client calling send_request while a second host of the same worker
\* keeps creating a window that the user keeps closing, so that close
\* events are broadcast to the client's connection without end (the second
\* host creates the next window once the traffic of the last has been
\* consumed).  Every thread and the worker keep running, and time passes.
\* The loop of send_request polls again at once after a message that is
\* not its reply, while the reader needs a read of the socket for each
\* message it queues: a call that keeps waiting finds the queue empty at
\* some poll.
OtherConn == Max(Conns)

\* A turn of the loop of send_request that finds the queue empty.
SendRequestLoopEmpty == response_channel = <<>> /\ SendRequestLoop

TrafficNext ==
  \/ /\ allocated = <<>>
     /\ SendRequest([kind |-> "Ping", window_id |-> 0, arg |-> "none"])
  \/ SendRequestLoop
  \/ WriterThread
  \/ ReaderThread(WholeReads)
  \/ TimePasses
  \/ event_loop_run(WholeReads)
  \/ HostConnect(OtherConn)
  \/ /\ response_channel = <<>>
     /\ HostCall(OtherConn, 1, [kind |-> "CreateBrowserWindow",
                                window_id |-> Min(Handles), arg |-> "none"])
  \/ HostRead(OtherConn)
  \/ \E t \in TaoIds : UserClose(t)

TrafficSpec ==
  /\ Init
  /\ [][TrafficNext]_vars
  /\ WF_vars(SendRequestLoop)
  /\ SF_vars(SendRequestLoopEmpty)
  /\ WF_vars(ReaderThread(WholeReads))
  /\ WF_vars(TimePasses)

ClientSpec ==
  /\ Init
  /\ [][ClientNext]_vars
  /\ WF_vars(ReaderThread(WholeReads))
  /\ WF_vars(WriterThread)
  /\ WF_vars(SendRequestLoop)
  /\ WF_vars(Tick)

\* The worker alone, before any client of this model exists.
WorkerInit ==
  /\ WorkerStart
  /\ backlog = <<>>
  /\ hostEnd = [c \in Conns |-> "free"]
  /\ ClientStart("none")

\* The worker serving one blocking host on the first connection, every
\* write arriving alone and whole.
FirstConn == Min(Conns)

WorkerNext ==
  \/ event_loop_run(WholeReads)
  \/ HostConnect(FirstConn)
  \/ \E id \in 1..MaxRequestId, request \in IpcRequest :
       HostCall(FirstConn, id, request)
  \/ HostRead(FirstConn)
  \/ \E t \in TaoIds : UserClose(t)

WorkerSpec == WorkerInit /\ [][WorkerNext]_vars

\* The worker serving several hosts that pipeline their requests, close
\* or reset their connections at any time, and whose bytes the worker's
\* reads may cut or run together.
ServerRequests ==
  {r \in IpcRequest :
     \/ r.kind = "Ping"
     \/ /\ r.kind \in {"CreateBrowserWindow", "SetWindowTitle", "CloseWindow"}
        /\ r.window_id = Min(Handles)}

ServerNext ==
  \/ event_loop_run(ReadChoices)
  \/ \E c \in Conns : HostConnect(c)
  \/ \E c \in Conns, request \in ServerRequests : HostSend(c, request)
  \/ \E c \in Conns : HostRead(c)
  \/ \E c \in Conns : HostClose(c)
  \/ \E c \in Conns : HostReset(c)
  \/ \E t \in TaoIds : UserClose(t)

ServerSpec == WorkerInit /\ [][ServerNext]_vars

\* EventloopProcess::spawn against a child of any behaviour.
Idle0 ==
  /\ window_manager = WindowManager_new
  /\ streams = <<>>
  /\ should_exit = FALSE
  /\ worker = "running"
  /\ eventQueue = <<>>
  /\ c2w = [c \in Conns |-> <<>>]
  /\ w2c = [c \in Conns |-> <<>>]
  /\ backlog = <<>>
  /\ hostEnd = [c \in Conns |-> "free"]
  /\ ClientStart("none")

SpawnInit == Idle0 /\ manager = Spawning

SpawnNext ==
  \/ \E line \in StdoutLines : ChildWrites(line)
  \/ ChildExits
  \/ SpawnReadLine
  \/ SpawnCheck
  \/ ConnectIpc
  \/ Stop
  \/ StopWait
  \/ Drop

SpawnSpec == SpawnInit /\ [][SpawnNext]_vars

\* A remote-mode Application from new_non_blocking to its drop.
AppNext ==
  \/ \E line \in StdoutLines : ChildWrites(line)
  \/ ChildExits
  \/ SpawnReadLine
  \/ SpawnCheck
  \/ ConnectIpc
  \/ NewNonBlocking
  \/ Application_exit
  \/ StopWait
  \/ Application_drop

AppSpec == SpawnInit /\ [][AppNext]_vars

(***************************************************************************)
(* Reading a step of the worker.  Under WorkerSpec every request arrives   *)
(* alone, so the closure call that takes the request at the head of c2w[c] *)
(* dispatches it and appends its reply to w2c[c] before anything else.     *)
(***************************************************************************)
Served(c) ==
  /\ c2w[c] # <<>>
  /\ Head(c2w[c]).part = "whole"
  /\ c2w'[c] = Tail(c2w[c])
  /\ hostEnd'[c] = hostEnd[c]

Request(c) == Head(c2w[c]).payload
RequestId(c) == Head(c2w[c]).request_id
Reply(c) == w2c'[c][Len(w2c[c]) + 1]

\* The closure call handles no native event / the close event of handle h.
NoNativeEvent == eventQueue' = eventQueue
NativeClose(h) ==
  /\ eventQueue # <<>>
  /\ eventQueue' = Tail(eventQueue)
  /\ get_window_id(window_manager, Head(eventQueue)) = {h}

\* The object a request needs is not registered under its handle.
Unregistered(request, wm) ==
  IF request.kind \in {"EvaluateScript", "LoadUrl", "LoadHtml"}
  THEN get_webview(wm, request.window_id) = {}
  ELSE get_window(wm, request.window_id) = {}

Replies(c) == {w2c[c][i] : i \in DOMAIN w2c[c]}

(***************************************************************************)
(* Reading the client.                                                     *)
(***************************************************************************)
\* The ids of the requests on their way to the worker, in submission order.
Submitted ==
  [i \in 1..Len(request_channel) |-> request_channel[i].request_id]

\* A turn of the polling loop of the call in progress.
Polls == call.pc = "waiting" /\ (call' # call \/ response_channel' # response_channel)
Returns(result) == call.pc = "waiting" /\ call'.pc = "returned" /\ call'.result = result

(***************************************************************************)
(* C1.  Whenever send_request returns Ok(response), the id in the          *)
(* response's envelope is the id allocated for that call: every call that  *)
(* has returned Ok returned a response carrying its own id, and every id   *)
(* the call polled and did not return differs from its own.                *)
(***************************************************************************)
C1_OkCarriesOwnId ==
  /\ \A i \in DOMAIN returned :
       returned[i].result = "Ok"
       => /\ Len(returned[i].resp) = 1
          /\ returned[i].resp[1].request_id = returned[i].request_id
  /\ call.request_id \notin call.skipped

\* A call has returned Ok after polling, and passing over, the reply to an
\* earlier fire-and-forget request and an unsolicited event (id 0).
C1_Witness ==
  /\ call.pc = "returned"
  /\ call.result = "Ok"
  /\ call.skipped = {0, 1}

(***************************************************************************)
(* C2.  A response that send_request polls and whose id differs from the   *)
(* id it waits for is not consumed: no response leaves the inbound queue   *)
(* in a turn of a call that does not return it.                            *)
(* The code takes every response off the queue with try_recv and drops     *)
(* the ones whose id does not match.                                       *)
(***************************************************************************)
C2_UnmatchedResponseStaysQueued ==
  [][(call.pc = "waiting" /\ response_channel # <<>>
        /\ response_channel' = Tail(response_channel))
     => /\ call'.pc = "returned"
        /\ call'.resp = <<Head(response_channel)>>]_vars

(***************************************************************************)
(* C3.  If the connection stays open and the worker sends nothing after a  *)
(* request is submitted, send_request returns TimedOut and no other error: *)
(* a call that began with the reader thread running, during which nothing  *)
(* was read from the socket and nothing is left unread on it, and whose    *)
(* worker is still running, has returned TimedOut if it has returned.      *)
(* In the code the reader thread ends at the 5 s read timeout, which drops *)
(* response_sender, so the call returns ConnectionReset.                   *)
(***************************************************************************)
C3_SilentWorkerTimesOut ==
  (/\ call.pc = "returned"
   /\ call.live
   /\ ~call.heard
   /\ call.skipped = {}
   /\ worker = "running"
   /\ hostEnd[ClientConn] = "open"
   /\ w2c[ClientConn] = <<>>)
  => call.result = "TimedOut"

(***************************************************************************)
(* C4.  When the reader thread has ended (the read returned 0 bytes or an  *)
(* error) while send_request waits, the next turn of the loop that finds   *)
(* the inbound queue empty returns ConnectionReset, however little of the  *)
(* request timeout has passed; and ConnectionReset is returned only then.  *)
(***************************************************************************)
C4_DisconnectedOnceDrained ==
  [][/\ (Polls /\ reader = "done" /\ response_channel = <<>>)
        => Returns("ConnectionReset")
     /\ Returns("ConnectionReset")
        => (reader = "done" /\ response_channel = <<>>)]_vars

\* The worker died while the call was waiting and the call returned
\* ConnectionReset with none of either timeout elapsed.
C4_Witness ==
  /\ call.pc = "returned"
  /\ call.result = "ConnectionReset"
  /\ call.live
  /\ worker = "killed"
  /\ elapsed = 0
  /\ readTimer = 0

(***************************************************************************)
(* C5.  Disconnection is absorbing: once a send_request of a client has    *)
(* returned ConnectionReset, no later send_request of that client returns  *)
(* a response.                                                             *)
(***************************************************************************)
C5_DisconnectedIsAbsorbing ==
  \A i, j \in DOMAIN returned :
    (i < j /\ returned[i].result = "ConnectionReset")
    => returned[j].result # "Ok"

\* Two calls have failed with ConnectionReset while the worker was running
\* and its reply to the second lay unread on the socket.
C5_Witness ==
  /\ Len(returned) = 2
  /\ returned[1].result = "ConnectionReset"
  /\ returned[2].result = "ConnectionReset"
  /\ worker = "running"
  /\ \E i \in DOMAIN w2c[ClientConn] :
       w2c[ClientConn][i].request_id = returned[2].request_id

(***************************************************************************)
(* C6.  The ids generate_request_id hands out are 1, 2, 3, ... in          *)
(* allocation order (pairwise distinct, strictly increasing, starting at   *)
(* 1, never 0), and every request submitted by send_request or             *)
(* send_request_async carries an id handed out for it alone.               *)
(***************************************************************************)
C6_RequestIdsFresh ==
  /\ \A i \in DOMAIN allocated : allocated[i] = i
  /\ REQUEST_ID_COUNTER = Len(allocated) + 1
  /\ \A i \in DOMAIN Submitted :
       /\ Submitted[i] \in Range(allocated)
       /\ \A j \in DOMAIN Submitted : i < j => Submitted[i] < Submitted[j]
  /\ call.pc = "waiting" => call.request_id \in Range(allocated)
  /\ \A i \in DOMAIN returned :
       \A j \in DOMAIN returned :
         i < j => returned[i].request_id < returned[j].request_id

\* Ids were taken by a fire-and-forget request and by a call of
\* send_request, and both requests are waiting for the writer thread.
C6_Witness ==
  /\ Len(allocated) = MaxRequestId
  /\ Len(Submitted) = MaxRequestId
  /\ call.pc = "waiting"

(***************************************************************************)
(* C7.  Every request kind that names a window handle (CloseWindow,        *)
(* CreateWebview, EvaluateScript, LoadUrl, LoadHtml, SetWindowVisible,     *)
(* SetWindowTitle), sent with a handle under which the object it needs is  *)
(* not registered, is answered with an Error response whose message names  *)
(* the handle, and the registry is left as it was.                         *)
(* The code answers CloseWindow of an unknown handle with Success.         *)
(***************************************************************************)
C7_UnregisteredHandleIsError ==
  [][\A c \in Conns :
       (Served(c) /\ Request(c).kind \in HandleKinds
          /\ Unregistered(Request(c), window_manager))
       => /\ Reply(c).payload.kind = "Error"
          /\ Request(c).window_id \in Reply(c).payload.body.names
          /\ (NoNativeEvent => window_manager' = window_manager)]_vars

(***************************************************************************)
(* C8.  When the toolkit builds the window, CreateBrowserWindow(H) is      *)
(* answered with Success echoing window_id = H and H is registered; a      *)
(* registered handle leaves the registry only by CloseWindow(H) or by a    *)
(* native close event of H; and while H is registered SetWindowTitle(H)    *)
(* and SetWindowVisible(H) are answered with Success.                      *)
(***************************************************************************)
C8_CreatedWindowServesTitleAndVisible ==
  [][/\ \A c \in Conns :
          (Served(c) /\ Request(c).kind = "CreateBrowserWindow"
             /\ Reply(c).payload.kind = "Success")
          => /\ Reply(c).payload.body = [window_id |-> Request(c).window_id,
                                         success |-> TRUE]
             /\ \/ Request(c).window_id \in DOMAIN window_manager'.windows
                \/ NativeClose(Request(c).window_id)
     /\ \A h \in Handles :
          (h \in DOMAIN window_manager.windows
             /\ h \notin DOMAIN window_manager'.windows)
          => \/ NativeClose(h)
             \/ \E c \in Conns :
                  Served(c) /\ Request(c) = [kind |-> "CloseWindow",
                                            window_id |-> h, arg |-> "none"]
     /\ \A c \in Conns :
          (Served(c) /\ Request(c).kind \in {"SetWindowTitle", "SetWindowVisible"}
             /\ Request(c).window_id \in DOMAIN window_manager.windows)
          => Reply(c) = IpcMessage(RequestId(c),
                          Success(IF Request(c).kind = "SetWindowTitle"
                                  THEN [title |-> Request(c).arg]
                                  ELSE [visible |-> Request(c).arg]))]_vars

\* A SetWindowTitle on a window created by request has been answered with
\* Success, and the window is still registered.
C8_Witness ==
  \E c \in Conns, id \in 1..MaxRequestId :
    /\ IpcMessage(id, Success([title |-> "T"])) \in Replies(c)
    /\ DOMAIN window_manager.windows # {}

(***************************************************************************)
(* C9.  A request that names a handle H which is not registered as a       *)
(* window (H was retired by CloseWindow(H) or by a native close event, or  *)
(* was never created) is answered with an Error response, also when a      *)
(* webview had been created for H.                                         *)
(* The code keeps the webview of a retired handle, so EvaluateScript,      *)
(* LoadUrl and LoadHtml still reach it.                                    *)
(***************************************************************************)
C9_RetiredHandleIsError ==
  [][\A c \in Conns :
       (Served(c)
          /\ Request(c).kind \in {"SetWindowVisible", "SetWindowTitle",
                                  "CreateWebview", "EvaluateScript",
                                  "LoadUrl", "LoadHtml"}
          /\ Request(c).window_id \notin DOMAIN window_manager.windows)
       => Reply(c).payload.kind = "Error"]_vars

(***************************************************************************)
(* C10.  A Ping is answered with Pong in an envelope carrying the          *)
(* request's id, whatever the registry holds, and a closure call that      *)
(* serves it and handles no native event leaves the registry unchanged.    *)
(***************************************************************************)
C10_PingAlwaysPong ==
  [][\A c \in Conns :
       (Served(c) /\ Request(c).kind = "Ping")
       => /\ Reply(c) = IpcMessage(RequestId(c), Pong)
          /\ (NoNativeEvent => window_manager' = window_manager)]_vars

\* A Pong has come back with the second request id while a window and a
\* webview were registered.
C10_Witness ==
  \E c \in Conns :
    /\ IpcMessage(MaxRequestId, Pong) \in Replies(c)
    /\ DOMAIN window_manager.windows # {}
    /\ DOMAIN window_manager.webviews # {}

(***************************************************************************)
(* C11.  A closure call that dispatches an Exit request replies Success on *)
(* that connection and marks the exit flag, so that a later call observes  *)
(* the flag and ends the loop.                                             *)
(* The code computes the flag to store as false for every result           *)
(* (lines 455-489), so should_exit is never set and the loop never exits.  *)
(***************************************************************************)
C11_ExitMarksFlag ==
  [][\A c \in Conns :
       (Served(c) /\ Request(c).kind = "Exit")
       => /\ Reply(c) = IpcMessage(RequestId(c), Success([exiting |-> TRUE]))
          /\ should_exit']_vars

(***************************************************************************)
(* C14.  The requests submitted through one client are written to the      *)
(* socket in the order in which they were enqueued: the ids of the         *)
(* requests on the socket, followed by those still waiting for the writer  *)
(* thread, increase.                                                       *)
(***************************************************************************)
C14_WrittenInSubmissionOrder ==
  LET ids == [i \in DOMAIN c2w[ClientConn] |-> c2w[ClientConn][i].request_id]
               \o Submitted
  IN \A i, j \in DOMAIN ids : i < j => ids[i] < ids[j]

\* A fire-and-forget request and the request of a call are both on the
\* socket, the writer having nothing more to write.
C14_Witness ==
  /\ Len(c2w[ClientConn]) = 2
  /\ request_channel = <<>>
  /\ call.pc = "waiting"

(***************************************************************************)
(* C16.  Closing one handle leaves every other handle untouched: a closure *)
(* call whose only request is CloseWindow(H2), or that handles the native  *)
(* close event of H2, leaves the window entry, the webview entry and the   *)
(* native-id mapping of every other handle as they were.                   *)
(***************************************************************************)
Entry(wm, h) ==
  <<get_window(wm, h), get_webview(wm, h),
    {t \in DOMAIN wm.tao_to_window_id : wm.tao_to_window_id[t] = h}>>

ClosesOnly(h2) ==
  \/ /\ \E c \in Conns :
          /\ Served(c)
          /\ Request(c) = [kind |-> "CloseWindow", window_id |-> h2, arg |-> "none"]
          /\ \A d \in Conns \ {c} : c2w'[d] = c2w[d]
     /\ NoNativeEvent \/ NativeClose(h2)
  \/ /\ c2w' = c2w
     /\ NativeClose(h2)

C16_CloseLeavesOtherHandles ==
  [][\A h2 \in Handles :
       ClosesOnly(h2)
       => \A h \in Handles \ {h2} :
            Entry(window_manager', h) = Entry(window_manager, h)]_vars

\* The first handle has been closed (its webview is what is left of it)
\* while the second, made invisible and given a webview before, is still
\* registered as it was.
C16_Witness ==
  /\ DOMAIN window_manager.windows = {MaxHandle}
  /\ ~window_manager.windows[MaxHandle].visible
  /\ DOMAIN window_manager.webviews = Handles
  /\ \E t \in TaoIds : Entry(window_manager, MaxHandle)[3] = {t}

(***************************************************************************)
(* Reading a step of the worker that serves several connections.           *)
(***************************************************************************)
\* A closure call of the worker: no host and no user acts in the step.
WorkerStep ==
  /\ hostEnd' = hostEnd
  /\ allocated' = allocated
  /\ Len(eventQueue') <= Len(eventQueue)
  /\ \A c \in Conns : Len(w2c'[c]) >= Len(w2c[c])

\* What the step wrote to connection c, and the responses among it.
NewOut(c) == SubSeq(w2c'[c], Len(w2c[c]) + 1, Len(w2c'[c]))
IsResponse(m) == m.payload.kind # "ApplicationEvent"
Responses(seq) == SelectSeq(seq, IsResponse)
Ids(seq) == [i \in DOMAIN seq |-> seq[i].request_id]
Increasing(ids) == \A i, j \in DOMAIN ids : i < j => ids[i] < ids[j]

\* The read of connection c ends in end-of-stream or an error.
Fails(c) == hostEnd[c] = "reset" \/ (hostEnd[c] = "closed" /\ c2w[c] = <<>>)
Stays(c) == ~Fails(c)

\* The step took bytes from connection c that are not one whole envelope.
Undecoded(c) == c2w'[c] # c2w[c] /\ ~Served(c)

CloseEvent(h) == IpcMessage(0, ApplicationEvent("WindowCloseRequested", h))

(***************************************************************************)
(* C12.  For every request the worker decodes it writes exactly one        *)
(* response, in an envelope with the request's id, on the connection the   *)
(* request was read from; a connection from which no request was decoded   *)
(* in a closure call gets no response in it.                               *)
(***************************************************************************)
C12_OneResponseOnSameConnection ==
  [][WorkerStep
     => \A c \in Conns :
          IF Served(c)
          THEN Ids(Responses(NewOut(c))) = <<RequestId(c)>>
          ELSE Responses(NewOut(c)) = <<>>]_vars

\* Each of two connections holds the response to its own request, and to
\* no other.
C12_Witness ==
  /\ Ids(Responses(w2c[1])) = <<1>>
  /\ Ids(Responses(w2c[2])) = <<2>>

(***************************************************************************)
(* C13.  Within one connection requests are dispatched and answered in the *)
(* order in which they were received: on every connection the ids of the   *)
(* responses written, followed by the ids of the requests still to be      *)
(* read, increase (the host numbers its requests in increasing order).     *)
(***************************************************************************)
C13_RepliesInRequestOrder ==
  \A c \in Conns : Increasing(Ids(Responses(w2c[c])) \o Ids(c2w[c]))

\* SetWindowTitle, sent right after CreateBrowserWindow on the same
\* connection, found the window registered: its Success follows the
\* Success of the creation.
C13_Witness ==
  \E c \in Conns :
    Responses(w2c[c]) =
      <<IpcMessage(1, Success([window_id |-> 1, success |-> TRUE])),
        IpcMessage(2, Success([title |-> "T"]))>>

C17_FailedStreamsRemoved ==
  [][WorkerStep => streams' = SelectSeq(Accepted, Stays)]_vars

\* The first connection was reset and removed; the second stayed and was
\* served afterwards.
C17_Witness ==
  /\ hostEnd[1] = "reset"
  /\ streams = <<2>>
  /\ Responses(w2c[2]) # <<>>
  /\ c2w[1] = <<>> /\ backlog = <<>>

(***************************************************************************)
(* C18.  When the bytes one read returns are not exactly one request       *)
(* envelope the worker drops them: it writes no response to the            *)
(* connection, the connection stays open, and if the closure call          *)
(* decodes no request and handles no native event the registry is left     *)
(* unchanged.                                                              *)
(***************************************************************************)
C18_UndecodableBytesDropped ==
  [][\A c \in Conns :
       (WorkerStep /\ Undecoded(c))
       => /\ Responses(NewOut(c)) = <<>>
          /\ c \in Range(streams')
          /\ ((\A d \in Conns : ~Served(d)) /\ NoNativeEvent)
                => (window_manager' = window_manager /\ w2c' = w2c)]_vars

\* The only request ever sent was cut by a read: its head was dropped, its
\* tail is still buffered, nothing was written and the connection is open.
C18_Witness ==
  \E c \in Conns :
    /\ Len(allocated) = 1
    /\ c2w[c] # <<>> /\ c2w[c][1].part = "tail"
    /\ c \in Range(streams)
    /\ w2c = [d \in Conns |-> <<>>]

(***************************************************************************)
(* C19.  Delivery does not depend on how the byte stream is cut into       *)
(* reads: every request whose last byte a closure call takes from a        *)
(* connection is dispatched and answered in that call, whether its bytes   *)
(* came in one read, in two, or together with another request.             *)
(* The code decodes the bytes of each read on their own, so a request      *)
(* split over two reads and two requests returned by one read are dropped. *)
(***************************************************************************)
\* The envelopes whose last byte the step takes from connection c.
Completed(c) == Len(c2w[c]) - Len(c2w'[c])

C19_DeliveryIgnoresReadBoundaries ==
  [][\A c \in Conns :
       (WorkerStep /\ c2w'[c] # c2w[c])
       => Len(Responses(NewOut(c))) = Completed(c)]_vars

(***************************************************************************)
(* C20.  spawn returns a manager only if it read the announcement of a     *)
(* port P and the child had not exited when its liveness was checked; the  *)
(* manager's ipc_port is then P and connect_ipc connects to P.  If the     *)
(* announcement is not seen or the child has exited by the check, spawn    *)
(* returns an error.                                                       *)
(* When try_wait itself fails the code logs the error and returns the      *)
(* manager, whether or not the child has exited.                           *)
(***************************************************************************)
C20_SpawnReturnsLiveManager ==
  /\ manager.pc = "ok"
     => /\ \E p \in Ports : manager.actual_port = {p} /\ manager.ipc_port = {p}
        /\ manager.connected \subseteq manager.ipc_port
        /\ ~manager.exitedAtCheck
  /\ (manager.pc \in {"ok", "err"}
       /\ (manager.actual_port = {} \/ manager.exitedAtCheck))
     => manager.pc = "err"

(***************************************************************************)
(* C21.  stop is idempotent.  The first call on a manager sets is_running  *)
(* to false, kills the child and, before it returns, waits for it; every   *)
(* later call, explicit or made by Drop, returns at once, kills and waits  *)
(* for nothing and leaves the manager as it was; is_running is never true  *)
(* after a call of stop.                                                   *)
(***************************************************************************)
\* The step begins a call of stop; the call in progress returns in it.
StopCalled == manager'.calls = manager.calls + 1
StopReturned ==
  /\ manager.spc = "waiting" \/ StopCalled
  /\ manager'.spc = "idle"

C21_StopIsIdempotent ==
  [][/\ (StopCalled /\ manager.calls = 0)
        => /\ ~manager'.is_running
           /\ manager'.kills = 1
           /\ manager'.spc = "waiting"
     /\ (StopReturned /\ manager.calls = 1 /\ ~StopCalled)
        => manager'.waits = 1 /\ manager'.child = "reaped"
     /\ (StopCalled /\ manager.calls > 0)
        => /\ StopReturned
           /\ manager'.kills = manager.kills
           /\ manager'.waits = manager.waits
           /\ manager'.child = manager.child
           /\ manager'.has_child = manager.has_child
           /\ manager'.is_running = manager.is_running
     /\ manager.calls > 0 => ~manager'.is_running]_vars

\* Two explicit calls and the call made by Drop have returned: the child
\* was killed once and waited for once.
C21_Witness ==
  /\ manager.calls = MaxStops + 1
  /\ manager.stops = MaxStops
  /\ manager.life = "dropped"
  /\ manager.kills = 1 /\ manager.waits = 1

(***************************************************************************)
(* C22.  A manager that is discarded without an explicit call of stop has  *)
(* its child killed and reaped: once the manager is gone the child is      *)
(* neither running nor a zombie.                                           *)
(***************************************************************************)
C22_DroppedManagerReapsChild ==
  manager.life = "dropped" => manager.child = "reaped"

\* The manager was dropped, stop never having been called on it, while the
\* child was running.
C22_Witness ==
  /\ manager.life = "dropped"
  /\ manager.stops = 0
  /\ manager.calls = 1
  /\ manager.kills = 1 /\ manager.waits = 1
  /\ ~manager.exitedAtCheck

(***************************************************************************)
(* C29.  When the toolkit fails to build the window of                     *)
(* CreateBrowserWindow(H), or the webview of CreateWebview(H) for a        *)
(* registered window H, the worker replies with an Error response that     *)
(* carries the request's id and the text of the failure, the registry is   *)
(* left as it was (H is not registered, respectively gets no webview),     *)
(* and the connection stays open and the loop running.                     *)
(***************************************************************************)
\* The closure call serves a creation request on c and answers it Error.
CreationFails(c, kind) ==
  /\ Served(c)
  /\ Request(c).kind = kind
  /\ Reply(c).payload.kind = "Error"

C29_ToolkitFailureIsError ==
  [][\A c \in Conns :
       /\ CreationFails(c, "CreateBrowserWindow")
          => /\ Reply(c) = IpcMessage(RequestId(c),
                             Error(RequestId(c), Msg("Failed to create window", {})))
             /\ NoNativeEvent => window_manager' = window_manager
             /\ c \in Range(streams') /\ worker' = "running" /\ ~should_exit'
       /\ (CreationFails(c, "CreateWebview")
             /\ get_window(window_manager, Request(c).window_id) # {})
          => /\ Reply(c) = IpcMessage(RequestId(c),
                             Error(RequestId(c), Msg("Failed to create webview", {})))
             /\ NoNativeEvent => window_manager' = window_manager
             /\ c \in Range(streams') /\ worker' = "running" /\ ~should_exit'
       /\ (Served(c) /\ Request(c).kind \in {"CreateBrowserWindow", "CreateWebview"}
             /\ Reply(c).payload.kind = "Success" /\ NoNativeEvent)
          => window_manager' # window_manager
                \/ Request(c).window_id \in DOMAIN window_manager.windows]_vars

\* The webview of a registered window failed to build: the Error is on
\* the wire, the window is registered and has no webview.
C29_Witness ==
  \E c \in Conns, id \in 1..MaxRequestId :
    /\ IpcMessage(id, Error(id, Msg("Failed to create webview", {}))) \in Replies(c)
    /\ DOMAIN window_manager.windows = {Min(Handles)}
    /\ window_manager.webviews = <<>>
    /\ c \in Range(streams)

(***************************************************************************)
(* C27.  When the socket of a client closes (the worker process is gone),  *)
(* the reader thread and the writer thread of the client both end, the     *)
(* client object not having to be dropped for it.                          *)
(* The writer thread blocks in request_receiver.recv() and ignores failed  *)
(* writes: it ends only when the client, which holds request_sender, is    *)
(* dropped.                                                                *)
(***************************************************************************)
C27_ThreadsEndWhenSocketCloses ==
  (worker # "running") ~> (reader = "done" /\ writer = "done")

(***************************************************************************)
(* C28.  Round trip of the wire encoding: deserialize_request applied to   *)
(* the bytes of serialize_request yields the same id and an equal request, *)
(* and deserialize_response applied to the bytes of serialize_response     *)
(* yields the id and an equal response, never the id 0 of a response       *)
(* without envelope.                                                       *)
(* Success{data: Some(null)} is written as "data":null, which is read      *)
(* back as data: None.                                                     *)
(***************************************************************************)
C28_WireRoundTrip ==
  codec.stage = "decoded" => codec.out = {codec.message}

(***************************************************************************)
(* The proxies.                                                            *)
(***************************************************************************)
\* C23: in remote mode a blocking proxy operation returns an error whenever
\* the worker's reply is an Error response, and success only when the reply
\* is a Success response.
C23_ErrorReplyIsAnError ==
  host.last.name \in BlockingOps /\ host.last.reply # <<>> =>
    /\ host.last.reply[1].payload.kind = "Error" => host.last.result = "Err"
    /\ host.last.result = "Ok" => host.last.reply[1].payload.kind = "Success"

\* C24: a fire-and-forget operation reports no transport failure: while the
\* client exists the send succeeds and the proxy returns normally, also when
\* the socket is closed.
C24_AsyncNeverFails ==
  host.last.name \in AsyncOps => host.last.sent = "Ok" /\ host.last.result = "Ok"

C24_Witness ==
  /\ host.last.name \in AsyncOps
  /\ host.last.closed
  /\ host.last.result = "Ok"
  /\ reader = "done"

\* The handles taken so far are 1, 2, .. in the order they were taken, and
\* the counter is one past the last.
HandlesInOrder ==
  /\ host.WINDOW_ID_COUNTER = Len(host.taken) + 1
  /\ \A i \in DOMAIN host.taken : host.taken[i].id = i

\* Every window of the worker and every window object of the host carries a
\* handle taken by a creation of its own mode.
RegisteredAsSent ==
  /\ \A h \in DOMAIN window_manager.windows :
       h \in DOMAIN host.taken /\ host.taken[h].ipc
  /\ \A h \in DOMAIN host.windows :
       /\ host.windows[h].id = h
       /\ h \in DOMAIN host.taken /\ host.taken[h].ipc = host.windows[h].ipc

\* A step in which create_browser_window or create_child_browser_window is
\* called, in remote and in direct mode.
RemoteCreateCalled == host.op.name = "none" /\ host'.op.name \in CreateOps
DirectCreateCalled ==
  /\ host.op.name = "none" /\ host'.op.name = "none"
  /\ host'.last # host.last
  /\ host'.last.name \in CreateOps /\ ~host'.last.ipc

TakesHandle ==
  /\ host'.WINDOW_ID_COUNTER = host.WINDOW_ID_COUNTER + 1
  /\ Len(host'.taken) = Len(host.taken) + 1
  /\ Last(host'.taken).id = host.WINDOW_ID_COUNTER

\* C26, as stated: every call of create_browser_window or
\* create_child_browser_window, in direct or remote mode and whether or not
\* it succeeds, takes a handle from the counter.
C26_EveryCreationTakesAHandle ==
  [][RemoteCreateCalled \/ DirectCreateCalled => TakesHandle]_vars

\* C26, amended: handles come from one counter that starts at 1 and only
\* grows, so no two windows get the same handle and the handle of a failed
\* creation is not reused; the worker registers a window under the handle it
\* was sent; every creation takes a handle, whether or not it succeeds,
\* except a direct-mode call made when the Application has no event loop,
\* which fails without taking one.
C26_HandlesFromOneCounter ==
  [][/\ HandlesInOrder' /\ RegisteredAsSent'
     /\ RemoteCreateCalled => TakesHandle
     /\ DirectCreateCalled =>
          IF host.event_loop THEN TakesHandle
          ELSE host'.taken = host.taken /\ host'.last.result = "Err"]_vars

C26_Witness ==
  /\ Len(host.taken) = 2
  /\ host.taken[1].ipc /\ host.taken[2].ipc
  /\ DOMAIN window_manager.windows = {2}
  /\ host.last.window_id = 2 /\ host.last.result = "Ok"
  /\ host.last.reply # <<>> /\ host.last.reply[1].payload.kind = "Success"

\* A step in which a read-only query of a remote-mode proxy is called.
QueryCalled == host'.last.name \in Queries /\ host'.last # host.last

\* C25: in remote mode a read-only query of the proxy sends no request and
\* returns a fixed default, whatever the worker's state and the operations
\* before it: is_visible true, is_maximized false, get_title "WebviewJS".
C25_QueriesAnswerDefaults ==
  [][QueryCalled =>
       /\ UNCHANGED <<REQUEST_ID_COUNTER, allocated, request_channel, c2w>>
       /\ host'.last.answer =
            CASE host'.last.name = "is_visible" -> {TRUE}
              [] host'.last.name = "is_maximized" -> {FALSE}
              [] host'.last.name = "get_title" -> {"WebviewJS"}]_vars

\* is_visible answers true for a window the worker has hidden at the
\* proxy's request.
C25_Witness ==
  /\ host.last.name = "is_visible"
  /\ host.last.answer = {TRUE}
  /\ \E i \in DOMAIN host.log : host.log[i] = "hide"
  /\ host.last.window_id \in DOMAIN window_manager.windows
  /\ ~window_manager.windows[host.last.window_id].visible

\* A step in which close, destroy or hide of a remote-mode proxy is called,
\* and a step in which a CloseWindow request is handed to the writer.
HideCalled ==
  /\ Len(host'.log) = Len(host.log) + 1
  /\ Last(host'.log) \in {"close", "destroy", "hide"}
CloseWindowSent ==
  /\ Len(request_channel') = Len(request_channel) + 1
  /\ Last(request_channel').request.kind = "CloseWindow"

\* C30: in remote mode close, destroy and hide of the proxy each send one
\* SetWindowVisible{visible: false} and no CloseWindow; CloseWindow is sent
\* by Application::close_window alone, so a handle leaves the worker's
\* registry only through it, and show() on a registered handle is answered
\* with Success.
C30_CloseOnlyHides ==
  [][/\ HideCalled =>
          request_channel' =
            Append(request_channel,
                   [request_id |-> Last(allocated'),
                    request |-> [kind |-> "SetWindowVisible",
                                 window_id |-> host'.last.window_id,
                                 arg |-> FALSE]])
     /\ CloseWindowSent => Last(host'.log) = "close_window"
     /\ \A h \in Handles :
          (h \in DOMAIN window_manager.windows
             /\ h \notin DOMAIN window_manager'.windows)
          => \E c \in Conns :
               Served(c) /\ Request(c) = [kind |-> "CloseWindow",
                                         window_id |-> h, arg |-> "none"]
     /\ \A c \in Conns :
          (Served(c) /\ Request(c).kind = "SetWindowVisible"
             /\ Request(c).window_id \in DOMAIN window_manager.windows)
          => Reply(c) = IpcMessage(RequestId(c),
                                   Success([visible |-> Request(c).arg]))]_vars

\* A window was created, hidden with hide() and shown again with show(),
\* and the worker, which still holds it, has answered show() with Success.
C30_Witness ==
  /\ host.log = <<"create_browser_window", "hide", "show">>
  /\ IpcMessage(3, Success([visible |-> TRUE])) \in Replies(ClientConn)
  /\ 1 \in DOMAIN window_manager.windows
  /\ window_manager.windows[1].visible

\* C31: is_child answers true for every window obtained from
\* create_child_browser_window and false for every window obtained from
\* create_browser_window, in direct and in remote mode alike.
C31_IsChildSameInBothModes ==
  \A h \in DOMAIN host.windows :
    is_child(host.windows[h]) = (host.taken[h].name = "create_child_browser_window")

(***************************************************************************)
(* The client over time.                                                   *)
(***************************************************************************)
\* The client's connection is whole: the worker is alive and holds the
\* connection (accepted or still in the listener's backlog), and the host
\* has not closed it.
ConnectionUp ==
  /\ client = "live"
  /\ worker = "running"
  /\ hostEnd[ClientConn] = "open"
  /\ ClientConn \in Range(streams) \cup Range(backlog)

\* C33: as long as neither side has closed the connection and the worker
\* is alive, the reader thread has not ended and no send_request has failed
\* with Disconnected, whatever time has passed without traffic.
C33_ReaderOutlivesIdle ==
  ConnectionUp =>
    /\ reader = "reading"
    /\ \A i \in DOMAIN returned : returned[i].result # "ConnectionReset"

\* A step that takes the message at the head of the client's inbound queue,
\* and whether try_recv_event or the loop of send_request took it.
Received ==
  /\ response_channel # <<>>
  /\ response_channel' = Tail(response_channel)
ByTryRecvEvent == call.pc # "waiting"

\* C34: no unsolicited event is lost on the client: an ApplicationEvent in
\* the inbound queue leaves it only by being returned by try_recv_event,
\* also when it arrived while a send_request was waiting for its reply.
C34_EventsReachTryRecvEvent ==
  [][Received /\ Head(response_channel).payload.kind = "ApplicationEvent"
       => ByTryRecvEvent]_vars

\* C35: try_recv_event returns only unsolicited events: each pair it
\* returns has request id 0 and an ApplicationEvent payload, never the
\* reply to a request.
C35_TryRecvEventReturnsEvents ==
  [][Received /\ ByTryRecvEvent
       => /\ Head(response_channel).request_id = 0
          /\ Head(response_channel).payload.kind = "ApplicationEvent"]_vars

C38_FailedSpawnReapsChild == manager.pc = "err" => manager.child = "reaped"

\* C37: over any sequence of exit() calls followed by the drop of the
\* Application, the manager is never accessed or released after it has
\* been released.
C37_ManagerReleasedOnce == ~manager.dangling

(***************************************************************************)
(* The registry of the worker.                                             *)
(***************************************************************************)
NativeIdsOf(wm, h) ==
  {t \in DOMAIN wm.tao_to_window_id : wm.tao_to_window_id[t] = h}

\* C39: the native-id map of the worker holds exactly one entry for each
\* registered handle, the native id of the window registered under it, and
\* no entry that points to an unregistered handle.
C39_WindowMapsConsistent ==
  /\ \A h \in DOMAIN window_manager.windows :
       NativeIdsOf(window_manager, h) = {window_manager.windows[h].tao}
  /\ \A t \in DOMAIN window_manager.tao_to_window_id :
       window_manager.tao_to_window_id[t] \in DOMAIN window_manager.windows

\* No request, response or event is on its way between the host and the
\* worker, and both are up.
NothingInFlight ==
  /\ host.op.name = "none"
  /\ call.pc # "waiting"
  /\ request_channel = <<>>
  /\ response_channel = <<>>
  /\ eventQueue = <<>>
  /\ \A c \in Conns : c2w[c] = <<>> /\ w2c[c] = <<>>
  /\ worker = "running"
  /\ reader = "reading"
  /\ writer = "running"

\* C36: in remote mode, whenever nothing is in flight, a handle is in
\* Application.open_windows exactly when the worker has a window registered
\* under it.
C36_OpenWindowsAgree ==
  NothingInFlight => host.open_windows = DOMAIN window_manager.windows

(***************************************************************************)
(* The queued Application.                                                 *)
(***************************************************************************)
\* The loop has run since webview v was requested, the window of v was
\* built and the toolkit did not refuse v.
Due(v) ==
  /\ host.queued.webviews[v].seen
  /\ host.queued.windows[host.queued.webviews[v].window].inner
  /\ ~host.queued.webviews[v].failed

\* C40: every webview requested with create_webview is built exactly once
\* when the loop runs and its window has been built, whether it was
\* requested before the window was built or after it.
C40_QueuedWebviewBuiltOnce ==
  \A v \in DOMAIN host.queued.webviews :
    Due(v) => host.queued.webviews[v].inner /\ host.queued.webviews[v].builds = 1
====
